---------------------------- MODULE Spec2Model ----------------------------
(***************************************************************************)
(* A model of the recipe pipeline of steves-cookbook:                      *)
(*   - scripts/unify_recipes.py: the page aggregator (analyze_files and    *)
(*     its three page classifiers),                                        *)
(*   - structure_recipes.py: the field extractor (process_recipe and the   *)
(*     extract_* functions it calls).                                      *)
(* Texts are TLA+ strings; the Python string methods and the regular       *)
(* expressions of the source are written out as operators on them.         *)
(***************************************************************************)
EXTENDS Integers, Sequences, FiniteSets, TLC

VARIABLES
    ocr_dir,         \* the texts of the *.txt files of ocr_dir, in sorted-name order
    idx,             \* analyze_files: number of files the for loop has consumed
    recipes,         \* analyze_files: the list of closed bundles
    current_recipe,  \* analyze_files: <<>> (None) or <<bundle>>
    title,           \* analyze_files: local of the loop body, None or <<string>>
    is_continuation, \* analyze_files: local of the loop body
    has_ending,      \* analyze_files: local of the loop body
    pc,              \* control position of the running function
    unified_dir,     \* main: files, the *.txt files of unified_dir in sorted order,
                     \*       each [name |-> f.name, text |-> f.read_text()]
    file_idx,        \* main: number of files the for loop has consumed
    recipe,          \* main: <<>> before the first iteration, then <<record>>
    output_dir,      \* main: the files of recipes_structured, file name -> record
    combine_idx,     \* unify main: number of bundles the loop of line 238 has combined
    unified_out,     \* unify main: the files of ocr_results_unified, file name -> text
    workers,         \* the loop body of main (lines 536-551) run once per file by a
                     \* worker of its own: worker -> its locals and position
    images,          \* ocr_batch main: the image files found, in sorted order
    skip_existing,   \* ocr_batch main: args.skip_existing
    max_workers,     \* ocr_batch main: args.workers
    ocr_results,     \* ocr_batch main: the stems of the .txt files of output_dir
    futures,         \* ocr_batch main: per image, the task submitted for it:
                     \*   its position and the tuple it returns
    collected,       \* ocr_batch main: the futures as_completed has yielded
    completed,       \* ocr_batch main: counter of the loop of line 188
    success_count,   \* ocr_batch main
    skip_count,      \* ocr_batch main
    error_count      \* ocr_batch main

vars == <<ocr_dir, idx, recipes, current_recipe, title, is_continuation, has_ending,
          pc, unified_dir, file_idx, recipe, output_dir, combine_idx, unified_out, workers,
          images, skip_existing, max_workers, ocr_results, futures, collected, completed,
          success_count, skip_count, error_count>>

\* the variables of analyze_files and those of structure_recipes.main
aggregator_vars == <<ocr_dir, idx, recipes, current_recipe, title, is_continuation, has_ending>>
structure_vars == <<unified_dir, file_idx, recipe, output_dir>>
combine_vars == <<combine_idx, unified_out>>
batch_vars == <<images, skip_existing, max_workers, ocr_results, futures, collected,
                completed, success_count, skip_count, error_count>>

\* ocr_batch.main is not running
NoBatch ==
    /\ images = <<>>
    /\ skip_existing = FALSE
    /\ max_workers = 0
    /\ ocr_results = {}
    /\ futures = <<>>
    /\ collected = {}
    /\ completed = 0
    /\ success_count = 0
    /\ skip_count = 0
    /\ error_count = 0

-----------------------------------------------------------------------------
(* Bounds of the model.                                                    *)

\* Largest number of page files in ocr_dir.
MaxPages == 3

\* Largest number of text files in unified_dir.
MaxUnified == 2

-----------------------------------------------------------------------------
(* Python str methods.                                                     *)

Min(a, b) == IF a < b THEN a ELSE b
Max(a, b) == IF a < b THEN b ELSE a

UpperAlpha == "ABCDEFGHIJKLMNOPQRSTUVWXYZ"
LowerAlpha == "abcdefghijklmnopqrstuvwxyz"
DigitChars == "0123456789"

\* s[i] (1-based) as a one-character string
Ch(s, i) == SubSeq(s, i, i)

\* s[i:] (1-based i)
From(s, i) == SubSeq(s, i, Len(s))

\* s[:n]
Prefix(s, n) == SubSeq(s, 1, Min(n, Len(s)))

\* s[-n:]
Suffix(s, n) == SubSeq(s, Max(1, Len(s) - n + 1), Len(s))

\* seq[:n] for a list
Take(seq, n) == SubSeq(seq, 1, Min(n, Len(seq)))

IsSpace(c) == c \in {" ", "\t", "\n", "\r"}
IsUpper(c) == \E i \in 1..26 : Ch(UpperAlpha, i) = c
IsLower(c) == \E i \in 1..26 : Ch(LowerAlpha, i) = c
IsDigit(c) == \E i \in 1..10 : Ch(DigitChars, i) = c
IsAlpha(c) == IsUpper(c) \/ IsLower(c)
\* \w of the re module, for ASCII text
IsWord(c) == IsAlpha(c) \/ IsDigit(c) \/ c = "_"

LowerCh(c) ==
    IF IsUpper(c)
    THEN Ch(LowerAlpha, CHOOSE i \in 1..26 : Ch(UpperAlpha, i) = c)
    ELSE c

UpperCh(c) ==
    IF IsLower(c)
    THEN Ch(UpperAlpha, CHOOSE i \in 1..26 : Ch(LowerAlpha, i) = c)
    ELSE c

\* The characters i..j of s in lower case (the range is halved so that the
\* evaluation nests only logarithmically deep).
RECURSIVE LowerRange(_, _, _)
LowerRange(s, i, j) ==
    IF i > j THEN ""
    ELSE IF i = j THEN LowerCh(Ch(s, i))
    ELSE LET m == (i + j) \div 2
         IN  LowerRange(s, i, m) \o LowerRange(s, m + 1, j)

RECURSIVE UpperRange(_, _, _)
UpperRange(s, i, j) ==
    IF i > j THEN ""
    ELSE IF i = j THEN UpperCh(Ch(s, i))
    ELSE LET m == (i + j) \div 2
         IN  UpperRange(s, i, m) \o UpperRange(s, m + 1, j)

\* str.lower()
Lower(s) == LowerRange(s, 1, Len(s))

\* str.upper()
Upper(s) == UpperRange(s, 1, Len(s))

\* str.startswith(p)
StartsWith(s, p) == Len(s) >= Len(p) /\ SubSeq(s, 1, Len(p)) = p

\* str.startswith((p1, p2, ...))
StartsWithAny(s, ps) == \E p \in ps : StartsWith(s, p)

\* str.endswith(p)
EndsWith(s, p) == Len(s) >= Len(p) /\ SubSeq(s, Len(s) - Len(p) + 1, Len(s)) = p

\* sub occurs in s at position i
At(s, i, sub) == i >= 1 /\ i + Len(sub) - 1 <= Len(s) /\ SubSeq(s, i, i + Len(sub) - 1) = sub

\* sub in s
Contains(s, sub) == \E i \in 1..(Len(s) - Len(sub) + 1) : At(s, i, sub)

\* any(kw in s for kw in kws)
ContainsAny(s, kws) == \E kw \in kws : Contains(s, kw)

\* str.find(sub), 1-based; 0 when sub does not occur
Find(s, sub) ==
    IF Contains(s, sub)
    THEN CHOOSE i \in 1..(Len(s) - Len(sub) + 1) :
             /\ At(s, i, sub)
             /\ \A j \in 1..(i - 1) : ~At(s, j, sub)
    ELSE 0

\* index of the first non-space character at or after i; Len(s) + 1 if none
RECURSIVE SkipSpace(_, _)
SkipSpace(s, i) ==
    IF i <= Len(s) /\ IsSpace(Ch(s, i)) THEN SkipSpace(s, i + 1) ELSE i

\* index of the first non-digit character at or after i; Len(s) + 1 if none
RECURSIVE SkipDigits(_, _)
SkipDigits(s, i) ==
    IF i <= Len(s) /\ IsDigit(Ch(s, i)) THEN SkipDigits(s, i + 1) ELSE i

\* index of the last non-space character at or before i; 0 if none
RECURSIVE BackSpace(_, _)
BackSpace(s, i) ==
    IF i >= 1 /\ IsSpace(Ch(s, i)) THEN BackSpace(s, i - 1) ELSE i

\* str.lstrip(), str.rstrip(), str.strip()
LStrip(s) == From(s, SkipSpace(s, 1))
RStrip(s) == SubSeq(s, 1, BackSpace(s, Len(s)))
Strip(s) == RStrip(LStrip(s))

\* str.split(sep): always at least one element
RECURSIVE SplitOn(_, _)
SplitOn(s, sep) ==
    LET i == Find(s, sep)
    IN  IF i = 0 THEN <<s>>
        ELSE <<SubSeq(s, 1, i - 1)>> \o SplitOn(From(s, i + Len(sep)), sep)

\* str.split('\n')
Split(s) == SplitOn(s, "\n")

\* str.replace(old, new)
RECURSIVE ReplaceAll(_, _, _)
ReplaceAll(s, old, new) ==
    LET i == Find(s, old)
    IN  IF i = 0 THEN s
        ELSE SubSeq(s, 1, i - 1) \o new \o ReplaceAll(From(s, i + Len(old)), old, new)

\* the characters i..j of s that are not in chars: re.sub('[chars]', '', s)
RECURSIVE RemoveRange(_, _, _, _)
RemoveRange(s, chars, i, j) ==
    IF i > j THEN ""
    ELSE IF i = j THEN (IF Ch(s, i) \in chars THEN "" ELSE Ch(s, i))
    ELSE LET m == (i + j) \div 2
         IN  RemoveRange(s, chars, i, m) \o RemoveRange(s, chars, m + 1, j)

RemoveChars(s, chars) == RemoveRange(s, chars, 1, Len(s))

\* str.title(): a letter is upper case after a non-letter, lower case after a letter
RECURSIVE TitleRange(_, _, _)
TitleRange(s, i, j) ==
    IF i > j THEN ""
    ELSE IF i = j
         THEN (IF i > 1 /\ IsAlpha(Ch(s, i - 1)) THEN LowerCh(Ch(s, i)) ELSE UpperCh(Ch(s, i)))
    ELSE LET m == (i + j) \div 2
         IN  TitleRange(s, i, m) \o TitleRange(s, m + 1, j)

Title(s) == TitleRange(s, 1, Len(s))

\* str.isupper(): some letter, and no lower-case letter
IsUpperStr(s) ==
    /\ \E i \in 1..Len(s) : IsUpper(Ch(s, i))
    /\ \A i \in 1..Len(s) : ~IsLower(Ch(s, i))

\* index of the first character at or after i that is not c
RECURSIVE SkipChar(_, _, _)
SkipChar(s, i, c) ==
    IF i <= Len(s) /\ Ch(s, i) = c THEN SkipChar(s, i + 1, c) ELSE i

\* index of the last character at or before i that is not c
RECURSIVE BackChar(_, _, _)
BackChar(s, i, c) ==
    IF i >= 1 /\ Ch(s, i) = c THEN BackChar(s, i - 1, c) ELSE i

\* str.lstrip(c), str.rstrip(c) for one character c
LStripChar(s, c) == From(s, SkipChar(s, 1, c))
RStripChar(s, c) == SubSeq(s, 1, BackChar(s, Len(s), c))

\* index of the first character at or after i that is neither ':' nor white
\* space: the end of a regex run [:\s]*
RECURSIVE SkipColonSpace(_, _)
SkipColonSpace(s, i) ==
    IF i <= Len(s) /\ (Ch(s, i) = ":" \/ IsSpace(Ch(s, i)))
    THEN SkipColonSpace(s, i + 1) ELSE i

\* the least element of a non-empty set of numbers
Least(S) == CHOOSE i \in S : \A j \in S : i <= j

\* sep.join(list)
RECURSIVE Join(_, _)
Join(list, sep) ==
    IF Len(list) = 0 THEN ""
    ELSE IF Len(list) = 1 THEN list[1]
    ELSE list[1] \o sep \o Join(Tail(list), sep)

\* text.strip().split('\n')
Lines(text) == Split(Strip(text))

\* An optional value (None or a value) is <<>> or <<value>>.
None == <<>>
Some(v) == <<v>>
\* Python truth of an optional string: not None and not ''
Truthy(opt) == opt # <<>> /\ opt[1] # ""

-----------------------------------------------------------------------------
(* scripts/unify_recipes.py: the page classifiers.                         *)

\* re.search(r'RECIPE FOR:\s*(.+)', line, re.IGNORECASE): group(1), or None.
\* The leftmost "recipe for:" that is followed by at least one character
\* matches; \s* is greedy but gives one character back to (.+) when only
\* white space follows.
RecipeForGroup(line) ==
    LET up   == Upper(line)
        pos  == Find(up, "RECIPE FOR:")
        rest == pos + 11
        body == SkipSpace(line, rest)
    IN  IF pos = 0 \/ rest > Len(line) THEN None
        ELSE IF body > Len(line) THEN Some(Ch(line, Len(line)))
        ELSE Some(From(line, body))

\* What one iteration of the first loop of extract_recipe_title returns
\* for a line: None when the loop goes on to the next line.
TitleFromMarkers(raw) ==
    LET line == Strip(raw)
    IN  IF line = "" \/ StartsWith(line, "http") \/ StartsWith(line, "![") THEN None
        ELSE IF StartsWith(line, "# ") THEN Some(Strip(From(line, 3)))
        ELSE IF Contains(Upper(line), "RECIPE FOR:") /\ RecipeForGroup(line) # None
             THEN Some(Strip(RecipeForGroup(line)[1]))
        ELSE None

\* re.sub(r'^(W/\s*)', '', line)
StripWPrefix(line) ==
    IF StartsWith(line, "W/") THEN From(line, SkipSpace(line, 3)) ELSE line

\* What one iteration of the fallback loop of extract_recipe_title returns.
TitleFromFallback(raw) ==
    LET line == Strip(raw)
    IN  IF /\ line # ""
           /\ ~StartsWithAny(line, {"http", "!", "|", "-", "*", "#"})
           /\ Len(line) > 3
           /\ Len(StripWPrefix(line)) > 3
        THEN Some(StripWPrefix(line))
        ELSE None

\* The first loop of extract_recipe_title from line i on: the first value
\* an iteration returns, None when the loop runs out.
RECURSIVE FirstMarkedTitle(_, _)
FirstMarkedTitle(lines, i) ==
    IF i > Len(lines) THEN None
    ELSE IF TitleFromMarkers(lines[i]) # None THEN TitleFromMarkers(lines[i])
    ELSE FirstMarkedTitle(lines, i + 1)

\* The fallback loop of extract_recipe_title from line i on.
RECURSIVE FirstFallbackTitle(_, _)
FirstFallbackTitle(lines, i) ==
    IF i > Len(lines) THEN None
    ELSE IF TitleFromFallback(lines[i]) # None THEN TitleFromFallback(lines[i])
    ELSE FirstFallbackTitle(lines, i + 1)

extract_recipe_title(text) ==
    LET lines  == Lines(text)
        marked == FirstMarkedTitle(Take(lines, 10), 1)
    IN  IF marked # None THEN marked
        ELSE FirstFallbackTitle(Take(lines, 5), 1)

\* re.match(r'^\d+\.', s)
StartsWithNumberDot(s) ==
    LET j == SkipDigits(s, 1) IN j > 1 /\ At(s, j, ".")

\* re.match(r'^https?://', s)
StartsWithUrl(s) == StartsWith(s, "http://") \/ StartsWith(s, "https://")

\* re.search(r'^\s*#\s+[A-Z]', s)
StartsWithH1Capital(s) ==
    LET h == SkipSpace(s, 1)
        w == SkipSpace(s, h + 1)
    IN  At(s, h, "#") /\ w > h + 1 /\ w <= Len(s) /\ IsUpper(Ch(s, w))

\* The list continuation_signs of looks_like_continuation, as a tuple of
\* booleans in the order of the source.
continuation_signs(text) ==
    LET lines          == Lines(text)
        first_line     == Lower(Strip(lines[1]))
        first_lines    == Lower(Join(Take(lines, 5), "\n"))
        first_10_lines == Lower(Join(Take(lines, 10), "\n"))
    IN  << StartsWithNumberDot(Strip(lines[1])),
           StartsWithAny(first_line, {"## step", "### step"}),
           StartsWithAny(first_line, {"once ", "pour ", "add ", "cook ", "stir ",
                                      "heat ", "mix ", "place ", "meanwhile"}),
           Contains(first_lines, "## step") /\ ~Contains(Prefix(first_lines, 20), "# "),
           StartsWithAny(first_line, {"3.", "4.", "5.", "6.", "7.", "8.", "9."}),
           StartsWith(first_lines, "step "),
           StartsWithUrl(first_line) /\ ~Contains(first_10_lines, "# "),
           IsLower(Prefix(Strip(lines[1]), 1)) >>

\* The list new_recipe_signs of looks_like_continuation.
new_recipe_signs(text) ==
    LET lines       == Lines(text)
        first_lines == Lower(Join(Take(lines, 5), "\n"))
    IN  << /\ Contains(Join(Take(lines, 3), "\n"), "# ")
           /\ ~Contains(Lower(lines[1]), "step")
           /\ ~Contains(Lower(lines[1]), "instructions"),
           Contains(first_lines, "prep time") /\ Contains(first_lines, "cook time"),
           Contains(first_lines, "## ingredients"),
           Contains(first_lines, "recipe for:"),
           StartsWithH1Capital(lines[1]) >>

\* any(list)
AnyOf(signs) == \E i \in DOMAIN signs : signs[i]

\* A classifier that forgets the new-recipe signs.
looks_like_continuation_no_override(text) == AnyOf(continuation_signs(text))

looks_like_continuation(text) ==
    AnyOf(continuation_signs(text)) /\ ~AnyOf(new_recipe_signs(text))

\* The list ending_signs of has_recipe_ending.
ending_signs(text) ==
    LET lower_text == Lower(text)
        last_500   == IF Len(lower_text) > 500 THEN Suffix(lower_text, 500) ELSE lower_text
    IN  << Contains(lower_text, "## notes"),
           Contains(lower_text, "## nutrition"),
           Contains(last_500, "calories:"),
           /\ Contains(last_500, "serving:")
           /\ (Contains(last_500, "calories") \/ Contains(last_500, "carbohydrates")),
           Contains(last_500, "find it online:"),
           Contains(last_500, "recipe from"),
           Contains(last_500, "can be made") /\ Contains(last_500, "ahead") >>

has_recipe_ending(text) == AnyOf(ending_signs(text))

-----------------------------------------------------------------------------
(* The page texts the directories of the model are filled from.            *)

RECURSIVE Repeat(_, _)
Repeat(s, n) == IF n = 0 THEN "" ELSE s \o Repeat(s, n - 1)

\* a heading, both time markers and an ingredients heading: a new recipe
PageTitled == "# Lemon Chicken\nPrep Time: 10 min | Cook Time: 20 min\n## Ingredients\n- 2 cups flour"
\* numbered steps as first line
PageStep3 == "3. Add the garlic and cook for 2 minutes."
PageStep1 == "1. Preheat the oven"
PageStep2 == "2. Chop the onions"
\* no continuation sign, no new-recipe sign, no title
PageImage == "![photo](img-0.jpeg)\n| 1 cup | milk |"
\* no continuation sign, no new-recipe sign, a fallback title
PagePlain == "Grandma's Stew\nA family favourite."
\* continuation signs and new-recipe signs together
PageBoth == "add the butter\n## Ingredients\n- 1 cup milk"
\* a continuation whose fifth line is an ending sign
PageNotes == "stir in the cream.\nServe warm.\nKeeps well.\n## Notes\nCan be frozen for a month."
\* a marker title and an ending sign in the tail
PageRecipeFor == "RECIPE FOR: Apple Pie\n2 c. flour\nRecipe from Grandma"
PageEmpty == ""
\* a step heading as first line
PageStepHeader == "## Step 3\nWhisk the eggs."
\* a continuation sign and no title
PageShort == "mix"
\* a bare link as first line
PageUrl == "https://example.com/r/1\nsome text"
\* more than 500 characters, 'calories:' only before the last 500
PageLong == "calories: 200\n" \o Repeat("salt and pepper to taste, then simmer for a while.\n", 10) \o "the end"

\* a top-level heading above a marker title
PageHeadingMarker == "# Family Favourites\nRECIPE FOR: Pot Pie"

PageTexts ==
    { PageTitled, PageStep3, PageStep1, PageStep2, PageImage, PagePlain, PageBoth,
      PageNotes, PageRecipeFor, PageEmpty, PageStepHeader, PageShort, PageUrl, PageLong,
      PageHeadingMarker }

\* All directories of at most n files.
Directories(n) == UNION { [1..k -> PageTexts] : k \in 0..n }

\* f.name and f.stem of the i-th file of the sorted directory listing
FileStem(i) == "page_" \o Ch(DigitChars, i + 1)
FileName(i) == FileStem(i) \o ".txt"

-----------------------------------------------------------------------------
(* scripts/unify_recipes.py: analyze_files.                                *)

\* Variants of the operators below, each with one plausible slip.
StartsNew_ignoring_title(cur, is_cont, ttl) == cur = None \/ ~is_cont
StartsNew_without_none_check(cur, is_cont, ttl) == ~is_cont /\ Truthy(ttl)
CloseBundle_replacing(closed, cur) == IF cur # None THEN <<cur[1]>> ELSE closed
CloseBundle_merging(closed, cur) ==
    IF cur = None THEN closed
    ELSE IF closed = <<>> THEN <<cur[1]>>
    ELSE [closed EXCEPT ![Len(closed)].files = @ \o cur[1].files]
NewBundle_without_page(ttl, name, stem, ending) ==
    [ title        |-> IF Truthy(ttl) THEN ttl[1] ELSE stem,
      files        |-> <<>>,
      source_stems |-> <<>>,
      complete     |-> ending ]
NewBundle_incomplete(ttl, name, stem, ending) ==
    [ title        |-> IF Truthy(ttl) THEN ttl[1] ELSE stem,
      files        |-> <<name>>,
      source_stems |-> <<stem>>,
      complete     |-> FALSE ]
AppendPage_overwriting(bundle, name, stem, ending) ==
    [ bundle EXCEPT !.files        = Append(@, name),
                    !.source_stems = Append(@, stem),
                    !.complete     = ending ]

\* line 126: the condition of the 'start new recipe' branch
StartsNew(cur, is_cont, ttl) == cur = None \/ (~is_cont /\ Truthy(ttl))

\* lines 128-129 and 143-144: 'if current_recipe: recipes.append(current_recipe)'
CloseBundle(closed, cur) == IF cur # None THEN Append(closed, cur[1]) ELSE closed

\* lines 130-135: the bundle a new recipe starts with
NewBundle(ttl, name, stem, ending) ==
    [ title        |-> IF Truthy(ttl) THEN ttl[1] ELSE stem,
      files        |-> <<name>>,
      source_stems |-> <<stem>>,
      complete     |-> ending ]

\* lines 138-141: the bundle after a page is appended to it
AppendPage(bundle, name, stem, ending) ==
    [ bundle EXCEPT !.files        = Append(@, name),
                    !.source_stems = Append(@, stem),
                    !.complete     = IF ending THEN TRUE ELSE @ ]

\* The classifiers are pure functions of the page text: their values on the
\* page texts of the model are tabulated once and looked up at every call.
Classified ==
    [ text \in PageTexts |->
        [ title              |-> extract_recipe_title(text),
          continuation_signs |-> continuation_signs(text),
          new_recipe_signs   |-> new_recipe_signs(text),
          is_continuation    |-> looks_like_continuation(text),
          has_ending         |-> has_recipe_ending(text) ] ] @@ <<>>

\* lines 121-124: the locals of one iteration, for the file about to be read
ReadNext ==
    LET text == ocr_dir[idx + 1]
    IN  /\ title' = Classified[text].title
        /\ is_continuation' = Classified[text].is_continuation
        /\ has_ending' = Classified[text].has_ending

\* One iteration of the for loop that takes the branch of lines 127-135.
StartNewRecipe ==
    /\ pc = "loop"
    /\ idx < Len(ocr_dir)
    /\ ReadNext
    /\ StartsNew(current_recipe, is_continuation', title')
    /\ recipes' = CloseBundle(recipes, current_recipe)
    /\ current_recipe' = Some(NewBundle(title', FileName(idx + 1), FileStem(idx + 1), has_ending'))
    /\ idx' = idx + 1
    /\ UNCHANGED <<ocr_dir, pc>>
    /\ UNCHANGED structure_vars
    /\ UNCHANGED combine_vars
    /\ UNCHANGED batch_vars
    /\ UNCHANGED workers

\* One iteration of the for loop that takes the branch of lines 136-141.
\* Subscripting None raises TypeError, which ends the run.
ContinueRecipe ==
    /\ pc = "loop"
    /\ idx < Len(ocr_dir)
    /\ ReadNext
    /\ ~StartsNew(current_recipe, is_continuation', title')
    /\ IF current_recipe = None
       THEN pc' = "TypeError" /\ UNCHANGED current_recipe
       ELSE /\ current_recipe' = Some(AppendPage(current_recipe[1], FileName(idx + 1),
                                                 FileStem(idx + 1), has_ending'))
            /\ UNCHANGED pc
    /\ idx' = idx + 1
    /\ UNCHANGED <<ocr_dir, recipes>>
    /\ UNCHANGED structure_vars
    /\ UNCHANGED combine_vars
    /\ UNCHANGED batch_vars
    /\ UNCHANGED workers

\* lines 143-146: the loop is over
FinishAnalysis ==
    /\ pc = "loop"
    /\ idx = Len(ocr_dir)
    /\ recipes' = CloseBundle(recipes, current_recipe)
    /\ pc' = "done"
    /\ UNCHANGED <<ocr_dir, idx, current_recipe, title, is_continuation, has_ending>>
    /\ UNCHANGED structure_vars
    /\ UNCHANGED combine_vars
    /\ UNCHANGED batch_vars
    /\ UNCHANGED workers

\* analyze_files is entered on a directory of at most MaxPages files.
Init ==
    /\ ocr_dir \in Directories(MaxPages)
    /\ idx = 0
    /\ recipes = <<>>
    /\ current_recipe = None
    /\ title = None
    /\ is_continuation = FALSE
    /\ has_ending = FALSE
    /\ pc = "loop"
    /\ unified_dir = <<>>
    /\ file_idx = 0
    /\ recipe = None
    /\ output_dir = <<>>
    /\ combine_idx = 0
    /\ NoBatch
    /\ unified_out = <<>>
    /\ workers = <<>>

Next == StartNewRecipe \/ ContinueRecipe \/ FinishAnalysis

Spec == Init /\ [][Next]_vars

-----------------------------------------------------------------------------
(* Properties of analyze_files.                                            *)

\* the 'files' lists of a list of bundles, concatenated
RECURSIVE ConcatFiles(_)
ConcatFiles(bundles) ==
    IF bundles = <<>> THEN <<>>
    ELSE bundles[1].files \o ConcatFiles(Tail(bundles))

\* the names of the first n files of the directory, in order
PageNames(n) == [i \in 1..n |-> FileName(i)]

\* the text of the file of a given name
TextOf(name) == ocr_dir[CHOOSE i \in 1..Len(ocr_dir) : FileName(i) = name]

\* the files of the open bundle (none when no bundle is open)
OpenFiles == IF current_recipe = None THEN <<>> ELSE current_recipe[1].files

\* the text of the page the last iteration read
LastText == ocr_dir[idx]

\* C1: the bundles partition the input: during the pass the closed bundles'
\* files followed by the open bundle's files are the pages read so far, in
\* order; when analyze_files returns, the returned bundles' files are the
\* whole input, in order.
C1_Partition ==
    /\ pc = "loop" => ConcatFiles(recipes) \o OpenFiles = PageNames(idx)
    /\ pc = "done" => ConcatFiles(recipes) = PageNames(Len(ocr_dir))
    /\ pc \in {"loop", "done"}

C1_Witness ==
    /\ pc = "done"
    /\ Len(ocr_dir) = 3
    /\ Len(recipes) = 2
    /\ Len(recipes[1].files) = 2

\* C2: the open bundle and every closed bundle hold at least one page, and
\* an empty page stream yields an empty bundle list.
C2_NonEmpty ==
    /\ \A i \in DOMAIN recipes : Len(recipes[i].files) >= 1
    /\ current_recipe # None => Len(current_recipe[1].files) >= 1
    /\ (pc = "done" /\ ocr_dir = <<>>) => recipes = <<>>

C2_Witness ==
    /\ pc = "loop"
    /\ Len(recipes) >= 1
    /\ current_recipe # None
    /\ Len(current_recipe[1].files) >= 2

\* The grouping as a fold over the page stream: the accumulator is
\* (closed groups, open group), a group being a list of file names and the
\* open group being None or <<group>>.
FoldStep(acc, i) ==
    LET page == Classified[ocr_dir[i]]
        open == acc[2]
    IN  IF open = None \/ (~page.is_continuation /\ page.title # None)
        THEN << IF open = None THEN acc[1] ELSE Append(acc[1], open[1]),
                Some(<<FileName(i)>>) >>
        ELSE << acc[1], Some(Append(open[1], FileName(i))) >>

RECURSIVE Fold(_)
Fold(n) == IF n = 0 THEN << <<>>, None >> ELSE FoldStep(Fold(n - 1), n)

FoldResult(n) ==
    LET acc == Fold(n)
    IN  IF acc[2] = None THEN acc[1] ELSE Append(acc[1], acc[2][1])

Groups(bundles) == [i \in DOMAIN bundles |-> bundles[i].files]

\* C3: after every iteration the closed and the open bundle are what the
\* fold gives for the pages read so far (a new bundle exactly when none is
\* open, or the page is not a continuation and has a title; an append
\* otherwise), and the returned list is the fold's result.
C3_Fold ==
    /\ pc = "loop" =>
          << Groups(recipes),
             IF current_recipe = None THEN None ELSE Some(current_recipe[1].files) >>
             = Fold(idx)
    /\ pc = "done" => Groups(recipes) = FoldResult(Len(ocr_dir))
    /\ pc \in {"loop", "done"}

\* a page that is not a continuation, but has no title, was appended
C3_Witness ==
    /\ pc = "loop"
    /\ idx >= 2
    /\ ~is_continuation
    /\ title = None
    /\ Len(current_recipe[1].files) >= 2

\* C4: looks_like_continuation is true only with a continuation sign and no
\* new-recipe sign; with both kinds of sign, and with neither, the page is
\* judged a new recipe.
C4_Precedence ==
    idx >= 1 =>
        LET c == AnyOf(Classified[LastText].continuation_signs)
            n == AnyOf(Classified[LastText].new_recipe_signs)
        IN  /\ is_continuation => (c /\ ~n)
            /\ (c /\ n) => ~is_continuation
            /\ (~c /\ ~n) => ~is_continuation

\* a page with both kinds of sign has been classified
C4_Witness ==
    /\ idx >= 1
    /\ AnyOf(Classified[LastText].continuation_signs)
    /\ AnyOf(Classified[LastText].new_recipe_signs)
    /\ ~is_continuation

\* C5: once the open bundle is complete, it stays complete through every
\* later append, and the bundle is complete when it is closed.
C5_Monotonic ==
    [][ (current_recipe # None /\ current_recipe[1].complete) =>
          /\ (Len(OpenFiles') > Len(OpenFiles)) => current_recipe'[1].complete
          /\ (recipes' # recipes) =>
                /\ recipes'[Len(recipes')].files = current_recipe[1].files
                /\ recipes'[Len(recipes')].complete ]_vars

\* a page without ending sign was appended to a bundle that is complete
C5_Witness ==
    /\ pc = "loop"
    /\ current_recipe # None
    /\ Len(current_recipe[1].files) >= 2
    /\ ~has_ending
    /\ current_recipe[1].complete

\* whether a page text holds the heading '## Notes'
HasNotesHeading == [text \in PageTexts |-> Contains(text, "## Notes")] @@ <<>>

\* C6: a closed bundle is complete if and only if has_recipe_ending holds
\* for one of its pages; in particular it is complete when its final page
\* holds '## Notes'.
C6_CompleteIffEnding ==
    \A i \in DOMAIN recipes :
        LET files == recipes[i].files
        IN  /\ recipes[i].complete <=>
                  \E k \in DOMAIN files : Classified[TextOf(files[k])].has_ending
            /\ HasNotesHeading[TextOf(files[Len(files)])] => recipes[i].complete

\* a closed bundle of several pages, the last one with '## Notes'
C6_Witness ==
    \E i \in DOMAIN recipes :
        LET files == recipes[i].files
        IN  /\ Len(files) >= 2
            /\ HasNotesHeading[TextOf(files[Len(files)])]
            /\ ~Classified[TextOf(files[1])].has_ending
            /\ recipes[i].complete

\* C7: the first page always opens a bundle that holds it, whatever its
\* classification.
C7_FirstPage ==
    /\ pc # "TypeError"
    /\ (idx = 1 /\ pc = "loop") =>
          /\ recipes = <<>>
          /\ current_recipe # None
          /\ current_recipe[1].files = <<FileName(1)>>
    /\ idx >= 1 => (ConcatFiles(recipes) \o OpenFiles)[1] = FileName(1)

\* the first page is a continuation without title
C7_Witness ==
    /\ idx = 1
    /\ pc = "loop"
    /\ is_continuation
    /\ title = None
    /\ current_recipe # None
    /\ current_recipe[1].files = <<FileName(1)>>

\* C8: a page whose first line is step 1 or 2, with no other continuation
\* sign, is not classified as a continuation.
C8_Steps1And2Excluded ==
    (/\ idx >= 1
     /\ StartsWithAny(Strip(Lines(LastText)[1]), {"1.", "2."})
     /\ \A k \in {2, 3, 4, 6, 7, 8} : ~Classified[LastText].continuation_signs[k])
    => ~is_continuation

-----------------------------------------------------------------------------
(* structure_recipes.py: the field extractors.  The texts of the model are *)
(* ASCII, so the non-ASCII alternatives of the source's patterns and       *)
(* keyword lists (the bullet and the en dash, 'jalapeno' with tilde,       *)
(* 'provencal' with cedilla, 'bon appetit' with accent) never match and    *)
(* are left out.                                                           *)

\* The first loop of extract_name from line i on: the stripped group of the
\* first line that matches 'RECIPE FOR:\s*(.+)'.
RECURSIVE NameFromMarker(_, _)
NameFromMarker(lines, i) ==
    IF i > Len(lines) THEN None
    ELSE IF RecipeForGroup(lines[i]) # None THEN Some(Strip(RecipeForGroup(lines[i])[1]))
    ELSE NameFromMarker(lines, i + 1)

section_headers ==
    { "ingredients", "instructions", "directions", "notes", "steps",
      "equipment", "preparation", "nutrition", "method", "tips" }

website_names == { "eatingwell", "epicurious", "food52", "food&wine", "allrecipes" }

\* HeadingTitle without the length test of line 30
HeadingTitle_any_length(raw) ==
    LET line == Strip(raw)
        ttl  == Strip(LStripChar(line, "#"))
    IN  IF /\ (StartsWith(line, "# ") \/ StartsWith(line, "## "))
           /\ Lower(ttl) \notin section_headers
           /\ Lower(ttl) \notin website_names
        THEN Some(ttl)
        ELSE None

\* What one iteration of the second loop of extract_name returns.
HeadingTitle(raw) ==
    LET line == Strip(raw)
        ttl  == Strip(LStripChar(line, "#"))
    IN  IF /\ (StartsWith(line, "# ") \/ StartsWith(line, "## "))
           /\ Lower(ttl) \notin section_headers
           /\ Len(ttl) > 3
           /\ Lower(ttl) \notin website_names
        THEN Some(ttl)
        ELSE None

RECURSIVE NameFromHeading(_, _)
NameFromHeading(lines, i) ==
    IF i > Len(lines) THEN None
    ELSE IF HeadingTitle(lines[i]) # None THEN HeadingTitle(lines[i])
    ELSE NameFromHeading(lines, i + 1)

extract_name(text, filename) ==
    LET lines   == Lines(text)
        marker  == NameFromMarker(Take(lines, 10), 1)
        heading == NameFromHeading(Take(lines, 15), 1)
    IN  IF marker # None THEN marker[1]
        ELSE IF heading # None THEN heading[1]
        ELSE ReplaceAll(filename, ".txt", "")

\* extract_description, line 51-53: the line that ends the loop
DescriptionStop(line_lower) ==
    /\ ContainsAny(line_lower, {"ingredient", "instruction", "direction", "## ", "### "})
    /\ StartsWith(line_lower, "#")

\* extract_description, lines 56-65: the lines the loop skips
DescriptionSkip(line, line_lower) ==
    \/ \E w \in {"prep", "cook", "total", "active"} :
          /\ StartsWith(line_lower, w)
          /\ StartsWith(From(line_lower, SkipSpace(line_lower, Len(w) + 1)), "time")
    \/ StartsWithAny(line_lower, {"serve", "yield", "serving", "course", "cuisine", "author"})
    \/ StartsWith(line, "|")
    \/ StartsWith(line, "---")
    \/ StartsWith(line, "![")
    \/ LET d == SkipDigits(line_lower, 1)
       IN  d > 1 /\ StartsWithAny(From(line_lower, SkipSpace(line_lower, d)), {"min", "hr", "hour"})

\* The loop of extract_description from line i on: description_lines at its end.
RECURSIVE DescriptionLines(_, _, _, _)
DescriptionLines(lines, i, in_description, description_lines) ==
    IF i > Len(lines) THEN description_lines
    ELSE LET line       == lines[i]
             line_lower == Strip(Lower(line))
         IN  IF DescriptionStop(line_lower) THEN description_lines
             ELSE IF DescriptionSkip(line, line_lower)
                  THEN DescriptionLines(lines, i + 1, in_description, description_lines)
             ELSE IF in_description /\ Strip(line) # ""
                  THEN DescriptionLines(lines, i + 1, in_description,
                                        Append(description_lines, Strip(line)))
             ELSE IF StartsWith(line, "#")
                  THEN DescriptionLines(lines, i + 1, TRUE, description_lines)
             ELSE DescriptionLines(lines, i + 1, in_description, description_lines)

extract_description(text) ==
    LET description_lines == DescriptionLines(Take(Lines(text), 30), 1, FALSE, <<>>)
        desc == Join(Take(description_lines, 3), " ")
    IN  IF description_lines # <<>> /\ Len(desc) > 50
        THEN Some(IF Len(desc) > 500 THEN Prefix(desc, 500) ELSE desc)
        ELSE None

\* index of the first '\n' or '|' at or after i; Len(s) + 1 if none: the end
\* of a regex run [^\n|]*
RECURSIVE SkipToBar(_, _)
SkipToBar(s, i) ==
    IF i <= Len(s) /\ Ch(s, i) # "\n" /\ Ch(s, i) # "|" THEN SkipToBar(s, i + 1) ELSE i

\* A match of
\*   (?:<stem>(?:<suffix>)?\s*(?:Time)?)\s*[:\s]+(\d+\s*(?:min|...|hours)[^\n|]*)
\* at position i of text (lower is text in lower case): <<first, last>> of
\* group 1, or None.
DurationAt(text, lower, i, stem, suffix) ==
    LET a == i + Len(stem)
        b == IF suffix # "" /\ At(lower, a, suffix) THEN a + Len(suffix) ELSE a
        c == SkipSpace(text, b)
        d == IF At(lower, c, "time") THEN c + 4 ELSE b
        e == SkipColonSpace(text, d)
        f == SkipDigits(text, e)
        g == SkipSpace(text, f)
    IN  IF /\ At(lower, i, stem)
           /\ e > d
           /\ f > e
           /\ \E u \in {"min", "hr", "hour"} : At(lower, g, u)
        THEN Some(<<e, SkipToBar(text, g) - 1>>)
        ELSE None

\* re.search of the pattern above: the stripped group of the leftmost match
DurationSearch(text, stem, suffix) ==
    LET lower == Lower(text)
        hits  == { i \in 1..Len(text) : DurationAt(text, lower, i, stem, suffix) # None }
    IN  IF hits = {} THEN None
        ELSE LET m == DurationAt(text, lower, Least(hits), stem, suffix)[1]
             IN  Some(Strip(SubSeq(text, m[1], m[2])))

\* a dict with the one entry key: value when opt is a value, the empty dict otherwise
Entry(key, opt) == IF opt = None THEN <<>> ELSE key :> opt[1]

extract_times(text) ==
    Entry("prep_time", DurationSearch(text, "prep", "aration"))
      @@ Entry("cook_time", DurationSearch(text, "cook", "ing"))
      @@ Entry("total_time", DurationSearch(text, "total", ""))

\* (\d+(?:\s*-\s*\d+)?) at position e: the index after it
NumberRangeEnd(text, e) ==
    LET f == SkipDigits(text, e)
        g == SkipSpace(text, f)
        h == SkipSpace(text, g + 1)
        k == SkipDigits(text, h)
    IN  IF At(text, g, "-") /\ k > h THEN k ELSE f

\* (?:\s*(?:people|servings?|portions?))? at position f: the index after it
ServingsWordEnd(lower, f) ==
    LET m == SkipSpace(lower, f)
    IN  IF At(lower, m, "people") THEN m + 6
        ELSE IF At(lower, m, "servings") \/ At(lower, m, "portions") THEN m + 8
        ELSE IF At(lower, m, "serving") \/ At(lower, m, "portion") THEN m + 7
        ELSE f

\* A match of the first pattern of extract_servings at position i.
ServingsAt(text, lower, i) ==
    LET stem == IF At(lower, i, "serving") THEN "serving"
                ELSE IF At(lower, i, "serve") THEN "serve"
                ELSE "yield"
        a == i + Len(stem)
        b == IF stem # "yield" /\ At(lower, a, "s") THEN a + 1 ELSE a
        e == SkipColonSpace(text, b)
        f == NumberRangeEnd(text, e)
    IN  IF At(lower, i, stem) /\ e > b /\ SkipDigits(text, e) > e
        THEN Some(<<e, ServingsWordEnd(lower, f) - 1>>)
        ELSE None

\* A match of the second pattern of extract_servings, SERVES:\s*(...), at i.
ServesColonAt(text, lower, i) ==
    LET e == SkipSpace(text, i + 7)
    IN  IF At(lower, i, "serves:") /\ SkipDigits(text, e) > e
        THEN Some(<<e, NumberRangeEnd(text, e) - 1>>)
        ELSE None

extract_servings(text) ==
    LET lower  == Lower(text)
        first  == { i \in 1..Len(text) : ServingsAt(text, lower, i) # None }
        second == { i \in 1..Len(text) : ServesColonAt(text, lower, i) # None }
    IN  IF first # {}
        THEN LET m == ServingsAt(text, lower, Least(first))[1]
             IN  Some(Strip(SubSeq(text, m[1], m[2])))
        ELSE IF second # {}
        THEN LET m == ServesColonAt(text, lower, Least(second))[1]
             IN  Some(Strip(SubSeq(text, m[1], m[2])))
        ELSE None

\* (?:\s*\||$|\n) matches at position p
AuthorEnd(text, p) ==
    \/ p > Len(text)
    \/ At(text, p, "\n")
    \/ At(text, SkipSpace(text, p), "|")

\* A match of (?:Author|By)[:\s]+([A-Z][a-zA-Z\s]+?)(?:\s*\||$|\n) at i:
\* the lazy group takes the fewest characters that reach an end.
AuthorAt(text, i) ==
    LET kw   == IF At(text, i, "Author") THEN "Author" ELSE "By"
        a    == i + Len(kw)
        e    == SkipColonSpace(text, a)
        lens == { k \in 1..(Len(text) - e) :
                    /\ \A j \in (e + 1)..(e + k) : IsAlpha(Ch(text, j)) \/ IsSpace(Ch(text, j))
                    /\ AuthorEnd(text, e + k + 1) }
    IN  IF At(text, i, kw) /\ e > a /\ e <= Len(text) /\ IsUpper(Ch(text, e)) /\ lens # {}
        THEN Some(<<e, e + Least(lens)>>)
        ELSE None

\* index of the first character at or after i that is not in [a-zA-Z0-9-]
RECURSIVE SkipHost(_, _)
SkipHost(s, i) ==
    IF i <= Len(s) /\ (IsAlpha(Ch(s, i)) \/ IsDigit(Ch(s, i)) \/ Ch(s, i) = "-")
    THEN SkipHost(s, i + 1) ELSE i

\* ([a-zA-Z0-9-]+)\.(?:com|org|net) at position b
HostAt(text, b) ==
    LET r == SkipHost(text, b)
    IN  IF r > b /\ At(text, r, ".") /\ (\E t \in {"com", "org", "net"} : At(text, r + 1, t))
        THEN Some(<<b, r - 1>>)
        ELSE None

\* A match of https?://(?:www\.)?([a-zA-Z0-9-]+)\.(?:com|org|net) at i.
UrlAt(text, i) ==
    LET a == IF At(text, i, "https://") THEN i + 8 ELSE i + 7
    IN  IF ~(At(text, i, "https://") \/ At(text, i, "http://")) THEN None
        ELSE IF At(text, a, "www.") /\ HostAt(text, a + 4) # None THEN HostAt(text, a + 4)
        ELSE HostAt(text, a)

\* the list 'sources' of extract_source
known_sources ==
    << "epicurious", "allrecipes", "food52", "food & wine",
       "eatingwell", "serious eats", "nyt cooking" >>

extract_source(text) ==
    LET authors == { i \in 1..Len(text) : AuthorAt(text, i) # None }
        urls    == { i \in 1..Len(text) : UrlAt(text, i) # None }
        text_lower == Lower(text)
        known   == { k \in DOMAIN known_sources : Contains(text_lower, known_sources[k]) }
    IN  IF authors # {}
        THEN LET m == AuthorAt(text, Least(authors))[1]
             IN  Some(Strip(SubSeq(text, m[1], m[2])))
        ELSE IF urls # {}
        THEN LET m == UrlAt(text, Least(urls))[1]
             IN  Some(SubSeq(text, m[1], m[2]))
        ELSE IF known # {} THEN Some(Title(known_sources[Least(known)]))
        ELSE None

\* re.match(r'^#{1,3}\s*(w1|w2|...)', line_lower)
HeadingStartsWith(line_lower, words) ==
    LET hashes == SkipChar(line_lower, 1, "#") - 1
    IN  /\ hashes >= 1
        /\ hashes <= 3
        /\ StartsWithAny(From(line_lower, SkipSpace(line_lower, hashes + 1)), words)

\* re.sub(r'^[-*]\s*', '', s)
StripBullet(s) ==
    IF At(s, 1, "-") \/ At(s, 1, "*") THEN From(s, SkipSpace(s, 2)) ELSE s

\* re.sub(r'^\d+[\.\)]\s*', '', s)
StripNumber(s) ==
    LET d == SkipDigits(s, 1)
    IN  IF d > 1 /\ (At(s, d, ".") \/ At(s, d, ")")) THEN From(s, SkipSpace(s, d + 1)) ELSE s

\* lines 199-202 and 204-207: a row goes to the current group if there is
\* one, to the flat list otherwise.  st is the state of extract_ingredients:
\* [in_section, current_group, ingredients, ingredient_groups].
RouteRow(st, row) ==
    IF Truthy(st.current_group) /\ st.current_group[1] \in DOMAIN st.ingredient_groups
    THEN [st EXCEPT !.ingredient_groups[st.current_group[1]] = Append(@, row)]
    ELSE [st EXCEPT !.ingredients = Append(@, row)]

\* lines 196-202: the cells of a table row, from cell k on
RECURSIVE RouteCells(_, _, _)
RouteCells(st, cells, k) ==
    IF k > Len(cells) THEN st
    ELSE LET part == Strip(cells[k])
         IN  IF part # "" /\ ~StartsWith(part, "---")
             THEN RouteCells(RouteRow(st, part), cells, k + 1)
             ELSE RouteCells(st, cells, k + 1)

\* lines 149-207: the primary loop of extract_ingredients from line i on
RECURSIVE PrimaryIngredients(_, _, _)
PrimaryIngredients(lines, i, st) ==
    IF i > Len(lines) THEN st
    ELSE
    LET line_stripped == Strip(lines[i])
        line_lower    == Lower(line_stripped)
        group         == Strip(RStripChar(LStripChar(line_stripped, "#"), ":"))
        ingredient    == StripNumber(StripBullet(line_stripped))
    IN  IF HeadingStartsWith(line_lower, {"ingredient"}) \/ line_lower = "ingredients"
        THEN PrimaryIngredients(lines, i + 1, [st EXCEPT !.in_section = TRUE])
        ELSE IF /\ st.in_section
                /\ HeadingStartsWith(line_lower, {"instruction", "direction", "method",
                                                  "preparation", "step"})
        THEN st
        ELSE IF \/ ~st.in_section
                \/ line_stripped = ""
                \/ StartsWith(line_stripped, "![")
                \/ (StartsWith(line_stripped, "|") /\ Contains(line_stripped, "---"))
        THEN PrimaryIngredients(lines, i + 1, st)
        ELSE IF \/ StartsWith(line_stripped, "###")
                \/ (EndsWith(line_stripped, ":") /\ Len(line_stripped) < 50)
        THEN PrimaryIngredients(lines, i + 1,
                 [st EXCEPT !.current_group = Some(group),
                            !.ingredient_groups = IF group # "" THEN (group :> <<>>) @@ @ ELSE @])
        ELSE IF \/ Len(ingredient) < 3
                \/ StartsWith(ingredient, "#")
                \/ Contains(Lower(ingredient), "cook mode")
                \/ Contains(Lower(ingredient), "screen")
        THEN PrimaryIngredients(lines, i + 1, st)
        ELSE IF Contains(ingredient, "|")
        THEN PrimaryIngredients(lines, i + 1, RouteCells(st, SplitOn(ingredient, "|"), 1))
        ELSE PrimaryIngredients(lines, i + 1, RouteRow(st, ingredient))

\* re.search(r'\d+\s*(c\.|cup|tsp|...|sprig)', s, re.IGNORECASE)
HasMeasure(s) ==
    LET lower == Lower(s)
    IN  \E p \in 1..Len(s) :
            /\ IsDigit(Ch(s, p))
            /\ \E u \in {"c.", "cup", "tsp", "tbs", "tbsp", "oz", "lb", "pound", "teaspoon",
                         "tablespoon", "inch", "clove", "sprig"} :
                   At(lower, SkipSpace(s, p + 1), u)

\* re.split(r'\s{2,}|\t', s), the piece that starts at 'start' being scanned at i
RECURSIVE SplitColumns(_, _, _)
SplitColumns(s, start, i) ==
    IF i > Len(s) THEN <<SubSeq(s, start, Len(s))>>
    ELSE IF SkipSpace(s, i) - i >= 2
         THEN <<SubSeq(s, start, i - 1)>> \o SplitColumns(s, SkipSpace(s, i), SkipSpace(s, i))
    ELSE IF Ch(s, i) = "\t"
         THEN <<SubSeq(s, start, i - 1)>> \o SplitColumns(s, i + 1, i + 1)
    ELSE SplitColumns(s, start, i + 1)

\* lines 250-253: the columns of a measured line go to the flat list
RECURSIVE AppendColumns(_, _, _)
AppendColumns(st, parts, k) ==
    IF k > Len(parts) THEN st
    ELSE LET part == Strip(parts[k])
         IN  IF part # "" /\ Len(part) > 3
             THEN AppendColumns([st EXCEPT !.ingredients = Append(@, part)], parts, k + 1)
             ELSE AppendColumns(st, parts, k + 1)

\* lines 261-267: the columns of another line go to the current group
RECURSIVE RouteColumns(_, _, _)
RouteColumns(st, parts, k) ==
    IF k > Len(parts) THEN st
    ELSE LET part == Strip(parts[k])
         IN  IF part # "" /\ Len(part) > 3
             THEN RouteColumns(
                      IF st.current_group[1] \in DOMAIN st.ingredient_groups
                      THEN [st EXCEPT !.ingredient_groups[st.current_group[1]] = Append(@, part)]
                      ELSE [st EXCEPT !.ingredients = Append(@, part)],
                      parts, k + 1)
             ELSE RouteColumns(st, parts, k + 1)

\* lines 212-267: the fallback loop of extract_ingredients from line i on
\* (i is 1-based: enumerate's index is i - 1); in_section is in_recipe.
RECURSIVE FallbackIngredients(_, _, _)
FallbackIngredients(lines, i, st) ==
    IF i > Len(lines) THEN st
    ELSE
    LET line_stripped == Strip(lines[i])
    IN  IF Contains(Upper(lines[i]), "RECIPE FOR:")
        THEN FallbackIngredients(lines, i + 1, [st EXCEPT !.in_section = TRUE])
        ELSE IF ~st.in_section
        THEN FallbackIngredients(lines, i + 1, st)
        ELSE IF /\ Len(line_stripped) > 100
                /\ StartsWithAny(line_stripped, {"In ", "Add ", "Heat ", "Pour ", "Cook ",
                                                 "Place ", "Season ", "Transfer "})
        THEN st
        ELSE IF line_stripped \in {"DSS", ""} /\ i - 1 > 5
        THEN IF /\ line_stripped = ""
                /\ \E k \in {i + 1, i + 2} : k <= Len(lines) /\ Len(Strip(lines[k])) > 80
             THEN st
             ELSE FallbackIngredients(lines, i + 1, st)
        ELSE IF Contains(Upper(line_stripped), "PREPARATION TIME")
        THEN st
        ELSE IF line_stripped = "" \/ line_stripped = "DSS"
        THEN FallbackIngredients(lines, i + 1, st)
        ELSE IF HasMeasure(line_stripped)
        THEN FallbackIngredients(lines, i + 1,
                 AppendColumns(st, SplitColumns(line_stripped, 1, 1), 1))
        ELSE IF IsUpperStr(line_stripped) /\ Len(line_stripped) < 30
        THEN FallbackIngredients(lines, i + 1,
                 [st EXCEPT !.current_group = Some(Title(line_stripped)),
                            !.ingredient_groups = (Title(line_stripped) :> <<>>) @@ @])
        ELSE IF Truthy(st.current_group) /\ Len(line_stripped) > 3
        THEN FallbackIngredients(lines, i + 1,
                 RouteColumns(st, SplitColumns(line_stripped, 1, 1), 1))
        ELSE FallbackIngredients(lines, i + 1, st)

\* lines 269-277: what extract_ingredients returns for the final state
IngredientsResult(st) ==
    LET labels == DOMAIN st.ingredient_groups
    IN  IF Cardinality(labels) > 1
        THEN [ingredients |-> st.ingredients, ingredient_groups |-> Some(st.ingredient_groups)]
        ELSE IF labels # {}
        THEN [ingredients |-> st.ingredients \o st.ingredient_groups[CHOOSE g \in labels : TRUE],
              ingredient_groups |-> None]
        ELSE [ingredients |-> st.ingredients, ingredient_groups |-> None]

\* lines 142-267: the state of extract_ingredients when it reaches line 269
IngredientsState(text) ==
    LET lines   == Lines(text)
        st0     == [in_section |-> FALSE, current_group |-> None,
                    ingredients |-> <<>>, ingredient_groups |-> <<>>]
        primary == PrimaryIngredients(lines, 1, st0)
    IN  IF primary.ingredients = <<>>
        THEN FallbackIngredients(lines, 1, [primary EXCEPT !.in_section = FALSE])
        ELSE primary

\* The pair extract_ingredients returns, as a record.
extract_ingredients(text) == IngredientsResult(IngredientsState(text))

\* re.match(r'^[1]\s*[\.\)]\s*\w', s)
StartsWithStepOne(s) ==
    LET a == SkipSpace(s, 2)
        b == SkipSpace(s, a + 1)
    IN  /\ At(s, 1, "1")
        /\ (At(s, a, ".") \/ At(s, a, ")"))
        /\ b <= Len(s)
        /\ IsWord(Ch(s, b))

\* re.match(r'^#{1,3}\s*step\s*\d+', line_lower)
IsStepHeading(line_lower) ==
    LET hashes == SkipChar(line_lower, 1, "#") - 1
        w      == SkipSpace(line_lower, hashes + 1)
        d      == SkipSpace(line_lower, w + 4)
    IN  hashes >= 1 /\ hashes <= 3 /\ At(line_lower, w, "step") /\ SkipDigits(line_lower, d) > d

\* lines 286-325: the loop of extract_instructions from line i on
RECURSIVE InstructionLines(_, _, _, _)
InstructionLines(lines, i, in_instructions, instructions) ==
    IF i > Len(lines) THEN instructions
    ELSE
    LET line_stripped == Strip(lines[i])
        line_lower    == Lower(line_stripped)
        started       == in_instructions \/ StartsWithStepOne(line_stripped)
        instruction   == StripNumber(StripBullet(line_stripped))
    IN  IF HeadingStartsWith(line_lower, {"instruction", "direction", "method",
                                          "preparation", "step"})
        THEN InstructionLines(lines, i + 1, TRUE, instructions)
        ELSE IF started /\ HeadingStartsWith(line_lower, {"note", "tip", "nutrition", "equipment"})
        THEN instructions
        ELSE IF \/ ~started
                \/ line_stripped = ""
                \/ StartsWith(line_stripped, "![")
                \/ IsStepHeading(line_lower)
                \/ Len(instruction) < 10
        THEN InstructionLines(lines, i + 1, started, instructions)
        ELSE InstructionLines(lines, i + 1, started, Append(instructions, instruction))

extract_instructions(text) == InstructionLines(Lines(text), 1, FALSE, <<>>)

\* re.match(r'^#{1,3}\s*(notes?|tips?|cook.?s?\s*notes?|variations?)', line_lower)
IsNotesHeading(line_lower) ==
    LET hashes == SkipChar(line_lower, 1, "#") - 1
        rest   == From(line_lower, SkipSpace(line_lower, hashes + 1))
    IN  /\ hashes >= 1
        /\ hashes <= 3
        /\ \/ StartsWithAny(rest, {"note", "tip", "variation"})
           \/ /\ StartsWith(rest, "cook")
              /\ \E any \in {0, 1} : \E s \in {0, 1} :
                    /\ 4 + any <= Len(rest)
                    /\ s = 1 => At(rest, 5 + any, "s")
                    /\ At(rest, SkipSpace(rest, 5 + any + s), "note")

\* lines 336-359: the loop of extract_notes from line i on
RECURSIVE NoteLines(_, _, _, _)
NoteLines(lines, i, in_notes, notes) ==
    IF i > Len(lines) THEN notes
    ELSE
    LET line_stripped == Strip(lines[i])
        line_lower    == Lower(line_stripped)
        note          == StripNumber(StripBullet(line_stripped))
    IN  IF IsNotesHeading(line_lower)
        THEN NoteLines(lines, i + 1, TRUE, notes)
        ELSE IF in_notes /\ HeadingStartsWith(line_lower, {"nutrition", "equipment"})
        THEN notes
        ELSE IF ~in_notes \/ line_stripped = "" \/ StartsWith(line_stripped, "![")
        THEN NoteLines(lines, i + 1, in_notes, notes)
        ELSE IF Len(note) > 10
        THEN NoteLines(lines, i + 1, in_notes, Append(notes, note))
        ELSE NoteLines(lines, i + 1, in_notes, notes)

extract_notes(text) == NoteLines(Lines(text), 1, FALSE, <<>>)

\* A match of <stem>s?\s*[:\s]+(\d+) at position i: <<first, last>> of the group.
CaloriesAt(text, lower, i) ==
    LET a == i + 7
        b == IF At(lower, a, "s") THEN a + 1 ELSE a
        e == SkipColonSpace(text, b)
        f == SkipDigits(text, e)
    IN  IF At(lower, i, "calorie") /\ e > b /\ f > e THEN Some(<<e, f - 1>>) ELSE None

\* A match of <stem>(s?)\s*[:\s]+(\d+\.?\d*\s*<unit>) at position i.
NutrientAt(text, lower, i, stem, plural, unit) ==
    LET a == i + Len(stem)
        b == IF plural /\ At(lower, a, "s") THEN a + 1 ELSE a
        e == SkipColonSpace(text, b)
        f == SkipDigits(text, e)
        g == IF At(text, f, ".") THEN f + 1 ELSE f
        h == SkipDigits(text, g)
        u == SkipSpace(text, h)
    IN  IF At(lower, i, stem) /\ e > b /\ f > e /\ At(lower, u, unit)
        THEN Some(<<e, u + Len(unit) - 1>>)
        ELSE None

NutrientSearch(text, stem, plural, unit) ==
    LET lower == Lower(text)
        hits  == { i \in 1..Len(text) : NutrientAt(text, lower, i, stem, plural, unit) # None }
    IN  IF hits = {} THEN None
        ELSE LET m == NutrientAt(text, lower, Least(hits), stem, plural, unit)[1]
             IN  Some(SubSeq(text, m[1], m[2]))

CaloriesSearch(text) ==
    LET lower == Lower(text)
        hits  == { i \in 1..Len(text) : CaloriesAt(text, lower, i) # None }
    IN  IF hits = {} THEN None
        ELSE LET m == CaloriesAt(text, lower, Least(hits))[1]
             IN  Some(SubSeq(text, m[1], m[2]))

\* The dict extract_nutrition builds, before 'nutrition if nutrition else None'.
NutritionDict(text) ==
    Entry("calories", CaloriesSearch(text))
      @@ Entry("protein", NutrientSearch(text, "protein", FALSE, "g"))
      @@ Entry("carbohydrates", NutrientSearch(text, "carbohydrate", TRUE, "g"))
      @@ Entry("fat", NutrientSearch(text, "fat", FALSE, "g"))
      @@ Entry("fiber", NutrientSearch(text, "fiber", FALSE, "g"))
      @@ Entry("sodium", NutrientSearch(text, "sodium", FALSE, "mg"))

extract_nutrition(text) ==
    IF DOMAIN NutritionDict(text) = {} THEN None ELSE Some(NutritionDict(text))

\* The keyword tables of generate_tags: <<tag, keywords>>.
proteins ==
    { <<"chicken", {"chicken", "poultry"}>>,
      <<"beef", {"beef", "steak", "short rib"}>>,
      <<"pork", {"pork", "bacon", "pancetta", "prosciutto"}>>,
      <<"fish", {"salmon", "cod", "halibut", "tilapia", "snapper", "bass", "fish"}>>,
      <<"seafood", {"shrimp", "prawn", "scallop", "mussel", "clam", "crab", "lobster", "squid"}>>,
      <<"turkey", {"turkey"}>>,
      <<"lamb", {"lamb"}>>,
      <<"tofu", {"tofu"}>> }

dish_types ==
    { <<"soup", {"soup", "broth"}>>,
      <<"stew", {"stew", "braised", "braise"}>>,
      <<"salad", {"salad"}>>,
      <<"pasta", {"pasta", "spaghetti", "penne", "pappardelle", "noodle", "orzo"}>>,
      <<"stir-fry", {"stir fry", "stir-fry", "wok"}>>,
      <<"roast", {"roast", "roasted"}>>,
      <<"grilled", {"grill", "grilled"}>>,
      <<"skillet", {"skillet"}>>,
      <<"one-pot", {"one-pot", "one pot", "dutch oven"}>>,
      <<"slow cooker", {"slow cooker", "crock pot", "crockpot"}>>,
      <<"casserole", {"casserole", "bake"}>> }

cuisines ==
    { <<"italian", {"italian", "parmesan", "parmigiano", "bolognese", "carbonara", "pesto"}>>,
      <<"mexican", {"mexican", "taco", "salsa", "cilantro", "chipotle", "cumin"}>>,
      <<"asian", {"asian", "soy sauce", "sesame", "ginger", "bok choy"}>>,
      <<"chinese", {"chinese", "hoisin", "oyster sauce", "five spice"}>>,
      <<"thai", {"thai", "fish sauce", "thai basil", "coconut milk curry"}>>,
      <<"indian", {"indian", "curry", "garam masala", "turmeric", "tikka", "masala", "vindaloo"}>>,
      <<"korean", {"korean", "gochujang", "kimchi", "galbi"}>>,
      <<"mediterranean", {"mediterranean", "olive oil", "feta", "hummus"}>>,
      <<"cajun", {"cajun", "creole", "jambalaya", "gumbo", "andouille"}>>,
      <<"french", {"french", "bourguignon", "herbes de provence"}>>,
      <<"southern", {"southern", "grits", "cornbread"}>> }

\* lines 401-403, 419-421, 437-439: the tags of a table whose keywords occur
TableTags(all_text, table) ==
    { row[1] : row \in { r \in table : ContainsAny(all_text, r[2]) } }

\* the meal type with the first two tests of lines 442-445 in the other order
MealType_breakfast_first(all_text) ==
    IF ContainsAny(all_text, {"breakfast", "brunch", "egg", "pancake"}) THEN "breakfast"
    ELSE IF ContainsAny(all_text, {"dessert", "cake", "pie", "cookie", "chocolate", "sweet"})
    THEN "dessert"
    ELSE IF ContainsAny(all_text, {"appetizer", "dip", "snack", "starter"}) THEN "appetizer"
    ELSE IF ContainsAny(all_text, {"side dish", "side"}) THEN "side dish"
    ELSE "dinner"

\* lines 442-451: the meal type
MealType(all_text) ==
    IF ContainsAny(all_text, {"dessert", "cake", "pie", "cookie", "chocolate", "sweet"})
    THEN "dessert"
    ELSE IF ContainsAny(all_text, {"breakfast", "brunch", "egg", "pancake"}) THEN "breakfast"
    ELSE IF ContainsAny(all_text, {"appetizer", "dip", "snack", "starter"}) THEN "appetizer"
    ELSE IF ContainsAny(all_text, {"side dish", "side"}) THEN "side dish"
    ELSE "dinner"

\* lines 454-467: the other tags, given the tags set so far
OtherTags(all_text, tags) ==
    (IF /\ ContainsAny(all_text, {"vegetarian", "veggie", "meatless"})
        /\ "chicken" \notin tags
        /\ "beef" \notin tags
     THEN {"vegetarian"} ELSE {})
    \cup (IF Contains(all_text, "vegan") THEN {"vegan"} ELSE {})
    \cup (IF ContainsAny(all_text, {"healthy", "low-calorie", "light"}) THEN {"healthy"} ELSE {})
    \cup (IF ContainsAny(all_text, {"comfort food", "hearty", "cozy"})
          THEN {"comfort food"} ELSE {})
    \cup (IF ContainsAny(all_text, {"quick", "easy", "30 min", "20 min", "15 min"})
          THEN {"quick"} ELSE {})
    \cup (IF ContainsAny(all_text, {"spicy", "hot sauce", "chili", "cayenne"})
          THEN {"spicy"} ELSE {})
    \cup (IF ContainsAny(all_text, {"creamy", "cream", "cheese"}) THEN {"creamy"} ELSE {})

\* The characters of the tags, in code point order.
TagChars == " -abcdefghijklmnopqrstuvwxyz"
CharRank(c) == CHOOSE i \in 1..Len(TagChars) : Ch(TagChars, i) = c

\* a < b for two strings, as Python compares them
StrLess(a, b) ==
    \E k \in 1..(Min(Len(a), Len(b)) + 1) :
        /\ SubSeq(a, 1, k - 1) = SubSeq(b, 1, k - 1)
        /\ \/ k > Len(a) /\ k <= Len(b)
           \/ k <= Len(a) /\ k <= Len(b) /\ CharRank(Ch(a, k)) < CharRank(Ch(b, k))

\* sorted(list(tags))
RECURSIVE Sorted(_)
Sorted(tags) ==
    IF tags = {} THEN <<>>
    ELSE LET first == CHOOSE t \in tags : \A u \in tags \ {t} : StrLess(t, u)
         IN  <<first>> \o Sorted(tags \ {first})

generate_tags(name, ingredients, instructions, text) ==
    LET all_text == Lower(name \o " " \o Join(ingredients, " ") \o " "
                          \o Join(instructions, " ") \o " " \o text)
        tabled   == TableTags(all_text, proteins) \cup TableTags(all_text, dish_types)
                        \cup TableTags(all_text, cuisines)
        meal     == tabled \cup {MealType(all_text)}
    IN  Sorted(meal \cup OtherTags(all_text, meal))

-----------------------------------------------------------------------------
(* structure_recipes.py: process_recipe and main.                          *)

\* The values of a record, as json.dump writes them.
Null == [type |-> "null"]
Str(s) == [type |-> "str", str |-> s]
List(l) == [type |-> "list", list |-> l]
Dict(d) == [type |-> "dict", dict |-> d]

\* Variants of the operators below, each with one plausible slip.
RequiredList_if_nonempty(key, list) == IF list = <<>> THEN <<>> ELSE key :> List(list)
OptionalStr_unconditional(key, opt) == key :> (IF opt = None THEN Null ELSE Str(opt[1]))

\* recipe[key] = list                                (lines 503, 507, 521)
RequiredList(key, list) == key :> List(list)

\* if value: recipe[key] = value, for an optional string   (lines 488-501)
OptionalStr(key, opt) == IF Truthy(opt) THEN key :> Str(opt[1]) ELSE <<>>

\* if value: recipe[key] = value, for a list         (lines 509-511)
OptionalList(key, list) == IF list # <<>> THEN key :> List(list) ELSE <<>>

\* if value: recipe[key] = value, for an optional dict     (lines 504-505, 513-515)
OptionalDict(key, opt) ==
    IF Len(opt) = 1 /\ DOMAIN opt[1] # {} THEN key :> Dict(opt[1]) ELSE <<>>

\* recipe['times'] = times in place of recipe.update(times)
TimeFields_nested(times) == IF DOMAIN times = {} THEN <<>> ELSE "times" :> Dict(times)

\* recipe.update(times)                              (lines 496-497)
TimeFields(times) == [k \in DOMAIN times |-> Str(times[k])]

\* process_recipe for the file [name |-> f.name, text |-> f.read_text()]
process_recipe(file) ==
    LET text         == file.text
        filename     == file.name
        name         == extract_name(text, filename)
        found        == extract_ingredients(text)
        instructions == extract_instructions(text)
    IN  ("name" :> Str(name))
          @@ ("source_file" :> Str(filename))
          @@ OptionalStr("source", extract_source(text))
          @@ OptionalStr("description", extract_description(text))
          @@ TimeFields(extract_times(text))
          @@ OptionalStr("servings", extract_servings(text))
          @@ RequiredList("ingredients", found.ingredients)
          @@ OptionalDict("ingredient_groups", found.ingredient_groups)
          @@ RequiredList("instructions", instructions)
          @@ OptionalList("notes", extract_notes(text))
          @@ OptionalDict("nutrition", extract_nutrition(text))
          @@ ("category" :> Null)
          @@ RequiredList("tags", generate_tags(name, found.ingredients, instructions, text))

\* The unified texts the directories of the model are filled from.
TextFull == "# Lemon Chicken\nBy: Jane Doe\nA bright and zesty weeknight dinner that comes together quickly.\nPrep Time: 10 min | Cook Time: 20 minutes\nServes: 4\n## Ingredients\n- 2 cups flour\n- 1 tsp salt\n## Instructions\n1. Preheat the oven to 400 degrees.\n2. Bake it.\n## Notes\n- Keeps for three days in the fridge.\n## Nutrition\nCalories: 250\nProtein: 12g"
TextGroups == "## Ingredients\n### Sauce\n- 1 cup cream\n- 2 tbsp butter\n### Filling\n- 1 lb beef\n- 1 onion\n## Directions\nMix everything well together."
TextHandwritten == "RECIPE FOR: Apple Pie\nSERVES: 6-8\n2 c. flour   1 tsp salt\nCRUST\n1 stick butter\nPREPARATION TIME: 1 hour"
TextEmpty == ""
TextPlain == "Grandma's Stew\nA family favourite."
TextUrl == "https://www.epicurious.com/recipes/1\n## Tacos\nTotal Time: 1 hr 5 min"
TextOneGroup == "Ingredients\nFor the dough:\n1) 3 eggs\n* 1 cup milk\n## Method\n- Whisk the eggs and milk together."
TextBlankMarker == "RECIPE FOR:  \n1. Stir."
TextKnownSource == "Veggie Chili\nfrom food52 with love\nServings 4-6 people\n1. Simmer the beans for an hour."
TextTable == "# Quick Pancakes\n## Ingredients\n| Amount | Item |\n|---|---|\n| 1 cup | flour |\n## Steps\n## Step 1\nStir it all."

TextNumbered == "## Ingredients\n1. 2 cups flour\n2. 1 tsp salt\n## Instructions\n1. Mix well together."
TextVeggiePork == "# Veggie Bacon Wraps\nA meatless-style wrap with crispy bacon on top."

\* two instruction lines of one wrapped sentence, and the same two lines swapped
TextOnePot == "## Instructions\nPut everything in one\npot and simmer slowly."
TextOnePotSwapped == "## Instructions\npot and simmer slowly.\nPut everything in one"
\* a description of 50 characters, an instruction and a note of 10 characters
TextFifty == "# Quick Rice\nFluffy rice that is ready in under twenty minutes.\n## Instructions\n- Stir well.\n## Notes\n- Serve warm"
\* a heading of three characters; a marker with nothing after it
TextShortHeading == "# Pho\n## Ingredients\n- 2 cups broth"
TextBareMarker == "RECIPE FOR:\n# Apple Tart"
\* grouped rows under a RECIPE FOR: line; a sub-group label that occurs twice
TextMarkerGroups == "# Family Favourites\nRECIPE FOR: Pot Pie\n## Ingredients\n### Sauce\n- 1 cup cream\n### Filling\n- 1 lb beef\n- 1 onion"
TextRepeatedLabel == "## Ingredients\n### Sauce\n- 1 cup cream\n### Filling\n- 1 onion\n### Sauce\n- 2 tbsp butter"

UnifiedTexts ==
    { TextFull, TextGroups, TextHandwritten, TextEmpty, TextPlain, TextUrl,
      TextOneGroup, TextBlankMarker, TextKnownSource, TextTable, TextNumbered,
      TextVeggiePork, TextOnePot, TextOnePotSwapped, TextFifty, TextShortHeading,
      TextBareMarker, TextMarkerGroups, TextRepeatedLabel }

\* str(n) for n >= 0
RECURSIVE IntStr(_)
IntStr(n) == IF n < 10 THEN Ch(DigitChars, n + 1) ELSE IntStr(n \div 10) \o Ch(DigitChars, (n % 10) + 1)

\* f.name of the i-th file of the sorted listing of unified_dir
UnifiedName(i) == "recipe_" \o IntStr(i) \o ".txt"

\* All sorted listings of a unified directory of at most n files.
UnifiedDirectories(n) ==
    UNION { { [i \in 1..k |-> [name |-> UnifiedName(i), text |-> texts[i]]] :
                texts \in [1..k -> UnifiedTexts] } : k \in 0..n }

\* re.sub(r'\s+', ' ', s)
RECURSIVE CollapseSpace(_, _)
CollapseSpace(s, i) ==
    IF i > Len(s) THEN ""
    ELSE IF IsSpace(Ch(s, i)) THEN " " \o CollapseSpace(s, SkipSpace(s, i))
    ELSE Ch(s, i) \o CollapseSpace(s, i + 1)

\* s.rsplit(' ', 1)[0]: s up to its last blank, all of s when it has none
RECURSIVE RSplitSpace(_, _)
RSplitSpace(s, i) ==
    IF i < 1 THEN s
    ELSE IF Ch(s, i) = " " THEN Prefix(s, i - 1)
    ELSE RSplitSpace(s, i - 1)

\* lines 99-110
sanitize_filename(name) ==
    LET removed   == RemoveChars(name, {"<", ">", ":", "\"", "/", "\\", "|", "?", "*"})
        entity    == ReplaceAll(removed, "&amp;", "and")
        ampersand == ReplaceAll(entity, "&", "and")
        stripped  == Strip(CollapseSpace(ampersand, 1))
    IN  IF Len(stripped) > 80
        THEN RSplitSpace(Prefix(stripped, 80), 80)
        ELSE stripped

\* The unified files of a directory of pages whose bundles are one page
\* followed by continuation pages: the k-th file named after the title of
\* such a bundle, with its text.
BundleFiles ==
    UNION { { [ name |-> sanitize_filename(Classified[first].title[1])
                           \o (IF k = 0 THEN "" ELSE " (" \o IntStr(k) \o ")") \o ".txt",
                text |-> Join(<<first>> \o [n \in 1..j |-> PageStep3], "\n\n") ] :
                first \in { PageTitled, PageStep3, PageRecipeFor },
                k \in 0..(MaxPages - 1 - j) } : j \in 0..(MaxPages - 1) }

\* The files of the directories of UnifiedDirectories(MaxUnified).
StructureFiles ==
    { [name |-> UnifiedName(i), text |-> t] : i \in 1..MaxUnified, t \in UnifiedTexts }

\* process_recipe is a pure function of the file: its values on the files
\* of the model are tabulated once and looked up at every call.
Processed ==
    [ file \in StructureFiles \cup BundleFiles |-> process_recipe(file) ] @@ <<>>

\* lines 539-540: the output name of a record
SafeName(name) ==
    LET safe_name == RemoveChars(name, {"<", ">", ":", "\"", "/", "\\", "|", "?", "*"})
    IN  IF Len(safe_name) > 80 THEN Prefix(safe_name, 80) ELSE safe_name

\* the output file without the loop of lines 544-547
OutputFile_overwriting(safe_name, existing) == safe_name \o ".json"

\* lines 541-547: the first output file that does not exist
OutputFile(safe_name, existing) ==
    IF (safe_name \o ".json") \notin existing
    THEN safe_name \o ".json"
    ELSE LET counter == Least({ k \in 1..(Cardinality(existing) + 1) :
                                   (safe_name \o " (" \o IntStr(k) \o ").json") \notin existing })
         IN  safe_name \o " (" \o IntStr(counter) \o ").json"

\* lines 535-551: one iteration of the loop of main
ProcessFile ==
    /\ pc = "main"
    /\ file_idx < Len(unified_dir)
    /\ LET file == unified_dir[file_idx + 1]
           rec  == Processed[file]
           out  == OutputFile(SafeName(rec["name"].str), DOMAIN output_dir)
       IN  /\ recipe' = Some(rec)
           /\ output_dir' = (out :> rec) @@ output_dir
    /\ file_idx' = file_idx + 1
    /\ UNCHANGED <<unified_dir, pc>>
    /\ UNCHANGED aggregator_vars
    /\ UNCHANGED combine_vars
    /\ UNCHANGED batch_vars
    /\ UNCHANGED workers

\* line 536: file_path.read_text() (line 474) raises OSError; neither
\* process_recipe nor main catches it, so it ends main.
ReadFails ==
    /\ pc = "main"
    /\ file_idx < Len(unified_dir)
    /\ pc' = "OSError"
    /\ UNCHANGED structure_vars
    /\ UNCHANGED aggregator_vars
    /\ UNCHANGED combine_vars
    /\ UNCHANGED batch_vars
    /\ UNCHANGED workers

\* lines 536-550: the record is extracted, then open(output_file, 'w') raises
\* OSError; main does not catch it.
WriteFails ==
    /\ pc = "main"
    /\ file_idx < Len(unified_dir)
    /\ LET file == unified_dir[file_idx + 1]
       IN  recipe' = Some(Processed[file])
    /\ pc' = "OSError"
    /\ UNCHANGED <<unified_dir, file_idx, output_dir>>
    /\ UNCHANGED aggregator_vars
    /\ UNCHANGED combine_vars
    /\ UNCHANGED batch_vars
    /\ UNCHANGED workers

\* line 558: the loop is over
FinishMain ==
    /\ pc = "main"
    /\ file_idx = Len(unified_dir)
    /\ pc' = "main done"
    /\ UNCHANGED structure_vars
    /\ UNCHANGED combine_vars
    /\ UNCHANGED batch_vars
    /\ UNCHANGED workers
    /\ UNCHANGED aggregator_vars

\* a record left in recipes_structured by an earlier run
EarlierRecord ==
    ("name" :> Str("Apple Pie")) @@ ("source_file" :> Str("Apple Pie.txt"))
      @@ ("ingredients" :> List(<<>>))
      @@ ("instructions" :> List(<<>>)) @@ ("category" :> Null) @@ ("tags" :> List(<<"dinner">>))

\* main is entered on a directory of at most MaxUnified files; the output
\* directory exists already or is created empty (line 529).
InitStructure ==
    /\ unified_dir \in UnifiedDirectories(MaxUnified)
    /\ file_idx = 0
    /\ recipe = None
    /\ output_dir \in { <<>>, "Apple Pie.json" :> EarlierRecord }
    /\ pc = "main"
    /\ ocr_dir = <<>>
    /\ idx = 0
    /\ recipes = <<>>
    /\ current_recipe = None
    /\ title = None
    /\ is_continuation = FALSE
    /\ has_ending = FALSE
    /\ combine_idx = 0
    /\ NoBatch
    /\ unified_out = <<>>
    /\ workers = <<>>

NextStructure == ProcessFile \/ ReadFails \/ WriteFails \/ FinishMain

SpecStructure == InitStructure /\ [][NextStructure]_vars

-----------------------------------------------------------------------------
\* The records of process_recipe: the one just returned and those written out.

Records ==
    (IF recipe = None THEN {} ELSE {recipe[1]})
        \cup { output_dir[f] : f \in DOMAIN output_dir }

optional_fields ==
    {"source", "description", "prep_time", "cook_time", "total_time",
     "servings", "ingredient_groups", "notes", "nutrition"}

\* a stored value that is null, an empty string, an empty list or an empty mapping
IsEmptyValue(v) ==
    \/ v.type = "null"
    \/ v.type = "str"  /\ v.str = ""
    \/ v.type = "list" /\ v.list = <<>>
    \/ v.type = "dict" /\ DOMAIN v.dict = {}

\* C9: every record returned by process_recipe has 'ingredients' and
\* 'instructions' present as lists (possibly empty), 'tags' present as a list
\* and 'category' present with the value null, whatever the input text.
C9_RequiredFields ==
    \A r \in Records :
        /\ {"ingredients", "instructions", "tags", "category"} \subseteq DOMAIN r
        /\ r["ingredients"].type = "list"
        /\ r["instructions"].type = "list"
        /\ r["tags"].type = "list"
        /\ r["category"] = Null

\* process_recipe has returned a record for a text with neither ingredients
\* nor instructions, and the two lists are stored empty.
C9_Witness ==
    /\ recipe # None
    /\ pc # "OSError"
    /\ file_idx > 0
    /\ "ingredients" \in DOMAIN recipe[1]
    /\ recipe[1]["ingredients"] = List(<<>>)
    /\ "instructions" \in DOMAIN recipe[1]
    /\ recipe[1]["instructions"] = List(<<>>)

\* C10: in every record returned by process_recipe each optional field is
\* either absent or present with a non-null, non-empty value; a miss of an
\* extractor never stores null, "", an empty list or an empty mapping.
C10_OptionalFields ==
    \A r \in Records :
        \A k \in optional_fields \cap DOMAIN r : ~IsEmptyValue(r[k])

\* process_recipe has returned a record in which one extractor found its field
\* (source) and another missed (description), and the missed one is left out.
C10_Witness ==
    /\ recipe # None
    /\ pc # "OSError"
    /\ file_idx > 0
    /\ "source" \in DOMAIN recipe[1]
    /\ "description" \notin DOMAIN recipe[1]
    /\ "notes" \notin DOMAIN recipe[1]
    /\ extract_description(unified_dir[file_idx].text) = None
    /\ extract_notes(unified_dir[file_idx].text) = <<>>

-----------------------------------------------------------------------------
(* The shape, the name and the persistence of the records.                 *)

\* The fields of a StructuredRecipe, spelled as the JSON records spell them
\* (prep_time for prepTime, ingredient_groups for ingredientGroups, ...).
StructuredRecipeKeys ==
    {"name", "source", "description", "prep_time", "cook_time", "total_time",
     "servings", "ingredients", "ingredient_groups", "instructions", "notes",
     "nutrition", "category", "tags"}

\* C11, as stated: every record persisted by main has only keys of the
\* StructuredRecipe shape, and so no field that refers back to the file it
\* was derived from.
C11_ExactShape ==
    recipe # None =>
        /\ DOMAIN recipe[1] \subseteq StructuredRecipeKeys
        /\ \A f \in DOMAIN output_dir :
              output_dir[f] = recipe[1] => DOMAIN output_dir[f] \subseteq StructuredRecipeKeys

\* C11, amended: every persisted record has only keys of the StructuredRecipe
\* shape and the key 'source_file'; 'source_file' is always present, and in
\* the record process_recipe returns it is the name of the unified text file
\* the record was derived from.
C11_ShapeWithSourceFile ==
    /\ \A r \in Records :
          /\ DOMAIN r \subseteq StructuredRecipeKeys \cup {"source_file"}
          /\ "source_file" \in DOMAIN r
          /\ r["source_file"].type = "str"
    /\ recipe # None /\ pc # "OSError" /\ file_idx > 0 /\ file_idx <= Len(unified_dir)
          => recipe[1]["source_file"] = Str(unified_dir[file_idx].name)

\* A record with times, nutrition and notes has been persisted, and carries the
\* name of its unified file.
C11_Witness ==
    /\ recipe # None
    /\ pc # "OSError"
    /\ file_idx > 0
    /\ {"prep_time", "cook_time", "nutrition", "notes"} \subseteq DOMAIN recipe[1]
    /\ recipe[1]["source_file"] = Str(unified_dir[file_idx].name)
    /\ \E f \in DOMAIN output_dir : output_dir[f] = recipe[1]

\* C12: the 'name' of every record is a non-empty string, also when a
\* 'RECIPE FOR:' marker line carries nothing but white space after the colon.
C12_NameNonEmpty ==
    \A r \in Records : r["name"].type = "str" /\ r["name"].str # ""

\* C13: persisting a record never overwrites an existing one: the store gains
\* exactly one file, every earlier file keeps its record, and the new file is
\* '<name>.json' when that is unused, else '<name> (k).json' for the first
\* unused k = 1, 2, ...
C13_NeverOverwrites ==
    [][ file_idx' = file_idx + 1 =>
          LET safe        == SafeName(recipe'[1]["name"].str)
              numbered(k) == safe \o " (" \o IntStr(k) \o ").json"
              new         == DOMAIN output_dir' \ DOMAIN output_dir
          IN  /\ Cardinality(DOMAIN output_dir') = Cardinality(DOMAIN output_dir) + 1
              /\ \A f \in DOMAIN output_dir :
                    f \in DOMAIN output_dir' /\ output_dir'[f] = output_dir[f]
              /\ \A f \in new : output_dir'[f] = recipe'[1]
              /\ IF (safe \o ".json") \notin DOMAIN output_dir
                 THEN new = {safe \o ".json"}
                 ELSE \E k \in 1..Cardinality(DOMAIN output_dir) :
                          /\ new = {numbered(k)}
                          /\ \A j \in 1..(k - 1) : numbered(j) \in DOMAIN output_dir
      ]_vars

\* Two records named 'Apple Pie' have been persisted beside an earlier
\* 'Apple Pie.json', which still holds its record.
C13_Witness ==
    /\ file_idx = 2
    /\ {"Apple Pie.json", "Apple Pie (1).json", "Apple Pie (2).json"} \subseteq DOMAIN output_dir
    /\ output_dir["Apple Pie.json"] = EarlierRecord
    /\ output_dir["Apple Pie (2).json"] = recipe[1]

-----------------------------------------------------------------------------
(* Properties of the extractors, stated on the file main has just processed. *)

\* the text of the file the record in 'recipe' was made from
ProcessedText == unified_dir[file_idx].text

HasRecord == recipe # None /\ pc # "OSError" /\ file_idx > 0 /\ file_idx <= Len(unified_dir)

\* the elements of a list
Range(list) == { list[k] : k \in 1..Len(list) }

\* the state of extract_ingredients at line 269, per unified text of the model
IngredientsStates == [ t \in UnifiedTexts |-> IngredientsState(t) ] @@ <<>>

\* the groups that received at least one row
Populated(groups) == { g \in DOMAIN groups : groups[g] # <<>> }

\* C17: extract_ingredients returns a group mapping if and only if two or more
\* distinct groups were populated (each received a row); with fewer, it returns
\* no mapping and the rows of the single group are flattened into the list.
C17_GroupsIffPopulated ==
    HasRecord /\ ProcessedText \in UnifiedTexts =>
        LET st        == IngredientsStates[ProcessedText]
            populated == Populated(st.ingredient_groups)
        IN  /\ ("ingredient_groups" \in DOMAIN recipe[1]) <=> (Cardinality(populated) >= 2)
            /\ Cardinality(populated) < 2 =>
                  recipe[1]["ingredients"].list =
                      st.ingredients \o (IF populated = {} THEN <<>>
                                         ELSE st.ingredient_groups[CHOOSE g \in populated : TRUE])

\* index of the first line from i on that is an ingredients heading, or 0
RECURSIVE IngredientsHeadingAt(_, _)
IngredientsHeadingAt(lines, i) ==
    IF i > Len(lines) THEN 0
    ELSE LET line_lower == Lower(Strip(lines[i]))
         IN  IF HeadingStartsWith(line_lower, {"ingredient"}) \/ line_lower = "ingredients"
             THEN i ELSE IngredientsHeadingAt(lines, i + 1)

\* index of the first line from i on that is an instructions heading, or 0
RECURSIVE InstructionsHeadingAt(_, _)
InstructionsHeadingAt(lines, i) ==
    IF i > Len(lines) THEN 0
    ELSE IF HeadingStartsWith(Lower(Strip(lines[i])),
                {"instruction", "direction", "method", "preparation", "step"})
         THEN i ELSE InstructionsHeadingAt(lines, i + 1)

\* a line that is an ingredient row: not blank, an image, a table row, a
\* group label or noise, and at least three characters without its prefix
IsIngredientRow(line) ==
    LET line_stripped == Strip(line)
        ingredient    == StripNumber(StripBullet(line_stripped))
    IN  /\ line_stripped # ""
        /\ ~StartsWith(line_stripped, "![")
        /\ ~StartsWith(line_stripped, "#")
        /\ ~(EndsWith(line_stripped, ":") /\ Len(line_stripped) < 50)
        /\ ~Contains(ingredient, "|")
        /\ Len(ingredient) >= 3
        /\ ~StartsWith(ingredient, "#")
        /\ ~Contains(Lower(ingredient), "cook mode")
        /\ ~Contains(Lower(ingredient), "screen")

\* C18: for a document with an ingredients heading, ingredient rows and then
\* an instructions heading, every row between the headings is returned by
\* extract_ingredients (prefix-stripped, in order) and none of them by
\* extract_instructions, also when the rows are numbered from '1.'.
C18_RowsNotInstructions ==
    HasRecord =>
        LET lines == Lines(ProcessedText)
            i     == IngredientsHeadingAt(lines, 1)
            j     == IF i = 0 THEN 0 ELSE InstructionsHeadingAt(lines, i + 1)
            rows  == [k \in 1..(j - i - 1) |-> StripNumber(StripBullet(Strip(lines[i + k])))]
        IN  (i > 0 /\ j > i + 1 /\ \A k \in (i + 1)..(j - 1) : IsIngredientRow(lines[k])) =>
                /\ recipe[1]["ingredients"].list = rows
                /\ Range(rows) \cap Range(recipe[1]["instructions"].list) = {}

meal_types == <<"dessert", "breakfast", "appetizer", "side dish", "dinner">>

\* the keywords of the four meal types that have keywords, in priority order
meal_keywords ==
    << {"dessert", "cake", "pie", "cookie", "chocolate", "sweet"},
       {"breakfast", "brunch", "egg", "pancake"},
       {"appetizer", "dip", "snack", "starter"},
       {"side dish", "side"} >>

\* all_text of generate_tags (line 388), rebuilt from a record and its text
AllText(rec, text) ==
    Lower(rec["name"].str \o " " \o Join(rec["ingredients"].list, " ") \o " "
          \o Join(rec["instructions"].list, " ") \o " " \o text)

\* the meal types (by priority) whose keywords occur in all_text, per file
MealMatches ==
    [ file \in StructureFiles |->
        { p \in 1..4 : ContainsAny(AllText(Processed[file], file.text), meal_keywords[p]) } ] @@ <<>>

\* C19: every tag list holds exactly one of the five meal-type tags: the one of
\* highest priority (dessert > breakfast > appetizer > side dish) whose keywords
\* occur in the text, and 'dinner' exactly when none of the four occurs.
C19_OneMealType ==
    HasRecord /\ unified_dir[file_idx] \in StructureFiles =>
        LET tags    == Range(recipe[1]["tags"].list)
            matches == MealMatches[unified_dir[file_idx]]
        IN  /\ Cardinality(tags \cap Range(meal_types)) = 1
            /\ \A p \in matches :
                  (\A q \in matches : p <= q) => meal_types[p] \in tags
            /\ ("dinner" \in tags) <=> (matches = {})

\* A record whose text holds keywords of two meal types ('cake' and 'pancake')
\* is tagged with the one of higher priority only.
C19_Witness ==
    /\ HasRecord
    /\ {1, 2} \subseteq MealMatches[unified_dir[file_idx]]
    /\ "dessert" \in Range(recipe[1]["tags"].list)
    /\ "breakfast" \notin Range(recipe[1]["tags"].list)

meat_proteins == {"chicken", "beef", "pork", "fish", "seafood", "turkey", "lamb"}

\* C20: 'vegetarian' is suppressed whenever a meat protein tag was set: no tag
\* list holds 'vegetarian' together with a meat protein tag.
C20_VegetarianSuppressed ==
    HasRecord =>
        LET tags == Range(recipe[1]["tags"].list)
        IN  "vegetarian" \in tags => tags \cap meat_proteins = {}

\* C15: a hard I/O failure on one record is confined to it: main never ends
\* early because of it, so main only ends once the loop has gone through
\* every file of the corpus.
C15_FailureConfined ==
    pc # "main" => pc = "main done" /\ file_idx = Len(unified_dir)

-----------------------------------------------------------------------------
(* structure_recipes.py: the body of the loop of main (lines 536-551), run  *)
(* for each file by a worker of its own, with no lock.  The steps of a      *)
(* worker are the calls that touch the output directory: each call of       *)
(* output_file.exists() and the open(output_file, 'w') with its json.dump.  *)

\* The texts the files of the workers are drawn from.
WorkerTexts == { TextHandwritten, TextFull, TextEmpty }

\* All sorted listings of at most n files for the workers.
WorkerDirectories(n) ==
    UNION { { [i \in 1..k |-> [name |-> UnifiedName(i), text |-> texts[i]]] :
                texts \in [1..k -> WorkerTexts] } : k \in 0..n }

\* lines 536-544: the record, the first candidate output file and the counter
WorkerProcess(w) ==
    /\ pc = "workers"
    /\ workers[w].pc = "process"
    /\ LET rec == Processed[unified_dir[w]]
       IN  workers' = [workers EXCEPT ![w] =
               [ pc          |-> "exists",
                 recipe      |-> Some(rec),
                 safe_name   |-> SafeName(rec["name"].str),
                 output_file |-> SafeName(rec["name"].str) \o ".json",
                 counter     |-> 1 ]]
    /\ UNCHANGED <<pc, output_dir, unified_dir, file_idx, recipe>>
    /\ UNCHANGED aggregator_vars
    /\ UNCHANGED combine_vars
    /\ UNCHANGED batch_vars

\* lines 545-547: one test of 'while output_file.exists()' and, when the file
\* exists, one run of the body
WorkerExists(w) ==
    /\ pc = "workers"
    /\ workers[w].pc = "exists"
    /\ IF workers[w].output_file \in DOMAIN output_dir
       THEN workers' = [workers EXCEPT
                ![w].output_file = workers[w].safe_name \o " (" \o IntStr(workers[w].counter)
                                       \o ").json",
                ![w].counter = @ + 1]
       ELSE workers' = [workers EXCEPT ![w].pc = "write"]
    /\ UNCHANGED <<pc, output_dir, unified_dir, file_idx, recipe>>
    /\ UNCHANGED aggregator_vars
    /\ UNCHANGED combine_vars
    /\ UNCHANGED batch_vars

\* lines 550-551: open(output_file, 'w') creates or truncates the file and
\* json.dump writes the record
WorkerWrite(w) ==
    /\ pc = "workers"
    /\ workers[w].pc = "write"
    /\ output_dir' = (workers[w].output_file :> workers[w].recipe[1]) @@ output_dir
    /\ workers' = [workers EXCEPT ![w].pc = "done"]
    /\ UNCHANGED <<pc, unified_dir, file_idx, recipe>>
    /\ UNCHANGED aggregator_vars
    /\ UNCHANGED combine_vars
    /\ UNCHANGED batch_vars

\* One worker per file of the listing; the output directory exists already or
\* is created empty.
InitWorkers ==
    /\ unified_dir \in WorkerDirectories(MaxUnified)
    /\ workers = [ w \in 1..Len(unified_dir) |->
                     [ pc |-> "process", recipe |-> None, safe_name |-> "",
                       output_file |-> "", counter |-> 1 ] ]
    /\ output_dir \in { <<>>, "Apple Pie.json" :> EarlierRecord }
    /\ pc = "workers"
    /\ file_idx = 0
    /\ recipe = None
    /\ combine_idx = 0
    /\ NoBatch
    /\ unified_out = <<>>
    /\ ocr_dir = <<>>
    /\ idx = 0
    /\ recipes = <<>>
    /\ current_recipe = None
    /\ title = None
    /\ is_continuation = FALSE
    /\ has_ending = FALSE

NextWorkers ==
    \E w \in DOMAIN workers : WorkerProcess(w) \/ WorkerExists(w) \/ WorkerWrite(w)

SpecWorkers == InitWorkers /\ [][NextWorkers]_vars

-----------------------------------------------------------------------------
(* scripts/unify_recipes.py: sanitize_filename, combine_recipe_files and    *)
(* the loop of main; then structure_recipes.main on the directory written.  *)

\* the unified file without the loop of lines 166-169
UnifiedFile_overwriting(safe_name, existing) == safe_name \o ".txt"

\* lines 163-169: the first output file that does not exist
UnifiedFile(safe_name, existing) ==
    IF (safe_name \o ".txt") \notin existing
    THEN safe_name \o ".txt"
    ELSE LET counter == Least({ k \in 1..(Cardinality(existing) + 1) :
                                   (safe_name \o " (" \o IntStr(k) \o ").txt") \notin existing })
         IN  safe_name \o " (" \o IntStr(counter) \o ").txt"

\* lines 151-159: the texts of the files of a bundle, joined by a blank line
full_text(bundle) ==
    Join([k \in 1..Len(bundle.files) |-> TextOf(bundle.files[k])], "\n\n")

\* lines 238-241 with combine_recipe_files (lines 149-172): one iteration
CombineRecipe ==
    /\ pc = "done"
    /\ combine_idx < Len(recipes)
    /\ LET bundle      == recipes[combine_idx + 1]
           output_file == UnifiedFile(sanitize_filename(bundle.title), DOMAIN unified_out)
       IN  unified_out' = (output_file :> full_text(bundle)) @@ unified_out
    /\ combine_idx' = combine_idx + 1
    /\ UNCHANGED pc
    /\ UNCHANGED aggregator_vars
    /\ UNCHANGED structure_vars
    /\ UNCHANGED workers
    /\ UNCHANGED batch_vars

\* lines 243-244: every bundle is combined
FinishCombine ==
    /\ pc = "done"
    /\ combine_idx = Len(recipes)
    /\ pc' = "unified"
    /\ UNCHANGED aggregator_vars
    /\ UNCHANGED structure_vars
    /\ UNCHANGED combine_vars
    /\ UNCHANGED batch_vars
    /\ UNCHANGED workers

\* The characters of a file name, in code point order (sanitize_filename and
\* safe_name leave none of < > : " / \ | ? * in a name; the grave accent,
\* which no string of a module can hold, is left out).
PathChars == " !#$%&'()+,-.0123456789;=@ABCDEFGHIJKLMNOPQRSTUVWXYZ[]^_abcdefghijklmnopqrstuvwxyz{}~"
CodePoint(c) == CHOOSE i \in 1..Len(PathChars) : Ch(PathChars, i) = c

\* a < b for two file names, as sorted() compares the paths of one directory
PathLess(a, b) ==
    \E k \in 1..(Min(Len(a), Len(b)) + 1) :
        /\ SubSeq(a, 1, k - 1) = SubSeq(b, 1, k - 1)
        /\ \/ k > Len(a) /\ k <= Len(b)
           \/ k <= Len(a) /\ k <= Len(b) /\ CodePoint(Ch(a, k)) < CodePoint(Ch(b, k))

\* sorted(unified_dir.glob('*.txt')), as file names
RECURSIVE SortedNames(_)
SortedNames(names) ==
    IF names = {} THEN <<>>
    ELSE LET first == CHOOSE a \in names : \A b \in names \ {a} : PathLess(a, b)
         IN  <<first>> \o SortedNames(names \ {first})

\* structure_recipes.main, lines 527-531, on the directory unify wrote
StartMain ==
    /\ pc = "unified"
    /\ LET names == SortedNames(DOMAIN unified_out)
       IN  unified_dir' = [i \in 1..Len(names) |->
                              [name |-> names[i], text |-> unified_out[names[i]]]]
    /\ pc' = "main"
    /\ UNCHANGED <<file_idx, recipe, output_dir>>
    /\ UNCHANGED aggregator_vars
    /\ UNCHANGED combine_vars
    /\ UNCHANGED batch_vars
    /\ UNCHANGED workers

\* The pages the directories of the two passes are filled from.
PipelinePages == { PageTitled, PageStep3, PageRecipeFor }

\* unify_recipes.main is entered with --auto on a directory of at most
\* MaxPages pages and an empty ocr_results_unified; recipes_structured exists
\* already or is created empty.
InitPipeline ==
    /\ ocr_dir \in UNION { [1..k -> PipelinePages] : k \in 0..MaxPages }
    /\ idx = 0
    /\ recipes = <<>>
    /\ current_recipe = None
    /\ title = None
    /\ is_continuation = FALSE
    /\ has_ending = FALSE
    /\ pc = "loop"
    /\ combine_idx = 0
    /\ NoBatch
    /\ unified_out = <<>>
    /\ unified_dir = <<>>
    /\ file_idx = 0
    /\ recipe = None
    /\ output_dir \in { <<>>, "Apple Pie.json" :> EarlierRecord }
    /\ workers = <<>>

NextPipeline ==
    \/ StartNewRecipe \/ ContinueRecipe \/ FinishAnalysis
    \/ CombineRecipe \/ FinishCombine
    \/ StartMain \/ ProcessFile \/ ReadFails \/ WriteFails \/ FinishMain

SpecPipeline == InitPipeline /\ [][NextPipeline]_vars

\* a function that sends no two arguments to one value
Injective(f) == \A a, b \in DOMAIN f : f[a] = f[b] => a = b

\* the texts of a non-empty list, each separated from the next by a blank line
RECURSIVE BlankLineJoined(_)
BlankLineJoined(pages) ==
    IF Len(pages) = 1 THEN pages[1]
    ELSE pages[1] \o "\n\n" \o BlankLineJoined(Tail(pages))

\* the texts of the pages of a bundle, in the order of the bundle
PageTextsOf(bundle) == [k \in 1..Len(bundle.files) |-> TextOf(bundle.files[k])]

\* the records of output_dir that this run of main persisted
PersistedRecords == { n \in DOMAIN output_dir : output_dir[n] # EarlierRecord }

\* C16: each bundle yields exactly one unified text and one structured record.
\* While and after the bundles are combined, the unified directory holds one
\* file per bundle combined so far, each holding the page texts of its bundle
\* joined by a blank line in page order; and when main has ended normally on
\* that directory, it has persisted one record per unified file, so as many
\* records as there are bundles, whatever titles and names collide.
C16_OnePerBundle ==
    /\ pc \in {"done", "unified", "main", "main done"} =>
          /\ Cardinality(DOMAIN unified_out) = combine_idx
          /\ \E m \in [1..combine_idx -> DOMAIN unified_out] :
                /\ Injective(m)
                /\ \A k \in 1..combine_idx :
                      unified_out[m[k]] = BlankLineJoined(PageTextsOf(recipes[k]))
    /\ pc \in {"unified", "main", "main done"} => combine_idx = Len(recipes)
    /\ pc = "main done" =>
          /\ Len(unified_dir) = Len(recipes)
          /\ Cardinality(PersistedRecords) = Len(recipes)
          /\ \E m \in [1..Len(unified_dir) -> PersistedRecords] :
                /\ Injective(m)
                /\ \A i \in 1..Len(unified_dir) :
                      output_dir[m[i]]["source_file"].str = unified_dir[i].name

\* Two bundles of one title, one of them of two pages, went through both
\* passes next to a record of an earlier run.
C16_Witness ==
    /\ pc = "main done"
    /\ Len(recipes) = 2
    /\ recipes[1].title = recipes[2].title
    /\ Len(recipes[1].files) = 2
    /\ "Apple Pie.json" \in DOMAIN output_dir
    /\ Cardinality(PersistedRecords) = 2

-----------------------------------------------------------------------------
(* Claims about the extractors of structure_recipes.py, checked on the      *)
(* records main has written.                                                *)

\* the record main wrote for the i-th file of the listing
RecordFor(i) ==
    CHOOSE r \in { output_dir[n] : n \in DOMAIN output_dir } :
        r # EarlierRecord /\ r["source_file"].str = unified_dir[i].name

\* a line that opens a section
IsHeadingLine(line) == StartsWith(Strip(line), "#")

\* the number of headings among the first i lines
SectionOf(lines, i) == Cardinality({ k \in 1..i : IsHeadingLine(lines[k]) })

\* how many lines of section sec are equal to line
Occurrences(lines, sec, line) ==
    Cardinality({ k \in 1..Len(lines) : SectionOf(lines, k) = sec /\ lines[k] = line })

\* b holds the lines of a in another order, every heading in its place and
\* every other line in the section it was in
SamePermutedSections(a, b) ==
    LET la == Split(a)
        lb == Split(b)
    IN  /\ Len(la) = Len(lb)
        /\ \A k \in 1..Len(la) :
              /\ IsHeadingLine(la[k]) <=> IsHeadingLine(lb[k])
              /\ IsHeadingLine(la[k]) => la[k] = lb[k]
              /\ Occurrences(la, SectionOf(la, k), la[k])
                   = Occurrences(lb, SectionOf(la, k), la[k])

\* the pairs of different texts of the model that are such permutations
Permuted ==
    { pair \in UnifiedTexts \X UnifiedTexts :
        pair[1] # pair[2] /\ SamePermutedSections(pair[1], pair[2]) }

\* C21: the tag list of every record is sorted ascending with no duplicates,
\* and two texts that differ only by the order of their lines within
\* sections get the same tag list.
C21_TagsOrderIndependent ==
    pc = "main done" =>
        /\ \A i \in 1..Len(unified_dir) :
              LET tags == RecordFor(i)["tags"].list
              IN  \A j, k \in 1..Len(tags) : j < k => StrLess(tags[j], tags[k])
        /\ \A i, j \in 1..Len(unified_dir) :
              <<unified_dir[i].text, unified_dir[j].text>> \in Permuted =>
                  RecordFor(i)["tags"] = RecordFor(j)["tags"]

\* the joined candidate text of extract_description for the texts of the model
DescriptionCandidates ==
    [ t \in UnifiedTexts |->
        Join(Take(DescriptionLines(Take(Lines(t), 30), 1, FALSE, <<>>), 3), " ") ] @@ <<>>

\* C22: a description is at most 500 characters long; the joined candidate
\* text is returned (cut to 500) whenever it has at least 50 characters, 50
\* included, and is discarded only when it has fewer than 50.
C22_DescriptionThreshold ==
    HasRecord =>
        LET desc == DescriptionCandidates[ProcessedText]
            rec  == recipe[1]
        IN  /\ "description" \in DOMAIN rec => Len(rec["description"].str) <= 500
            /\ Len(desc) >= 50 =>
                  /\ "description" \in DOMAIN rec
                  /\ rec["description"].str = Prefix(desc, 500)
            /\ Len(desc) < 50 => "description" \notin DOMAIN rec

\* the text that follows the first 'RECIPE FOR:' of a line, in any case
AfterMarker(line) ==
    LET i == Find(Upper(line), "RECIPE FOR:")
    IN  IF i = 0 THEN None ELSE Some(From(line, i + Len("RECIPE FOR:")))

\* the text of a heading of level 1 or 2, None for any other line
HeadingText(line) ==
    LET stripped == Strip(line)
    IN  IF StartsWith(stripped, "# ") THEN Some(Strip(From(stripped, 2)))
        ELSE IF StartsWith(stripped, "## ") THEN Some(Strip(From(stripped, 3)))
        ELSE None

\* a heading that is neither a generic section label nor a source site
IsTitleHeading(line) ==
    /\ HeadingText(line) # None
    /\ Lower(HeadingText(line)[1]) \notin section_headers
    /\ Lower(HeadingText(line)[1]) \notin website_names

\* the name the order marker, heading, file name gives, for the marker lines
\* and the heading lines handed in
NameByPrecedence(lines, markers, headings, filename) ==
    IF markers # {} THEN Strip(AfterMarker(lines[Least(markers)])[1])
    ELSE IF headings # {} THEN HeadingText(lines[Least(headings)])[1]
    ELSE ReplaceAll(filename, ".txt", "")

\* the names the two readings of the order give for the files of the model
NamesByPrecedence ==
    [ file \in StructureFiles |->
        LET lines    == Lines(file.text)
            markers  == { k \in 1..Min(10, Len(lines)) : AfterMarker(lines[k]) # None }
            headings == { k \in 1..Min(15, Len(lines)) : IsTitleHeading(lines[k]) }
        IN  [ stated  |-> NameByPrecedence(lines, markers, headings, file.name),
              amended |-> NameByPrecedence(lines,
                              { k \in markers : AfterMarker(lines[k])[1] # "" },
                              { k \in headings : Len(HeadingText(lines[k])[1]) > 3 },
                              file.name) ] ] @@ <<>>

\* C23 as stated: the name is the text after a 'RECIPE FOR:' marker in the
\* first 10 lines; else the text of the first heading of level 1 or 2 in the
\* first 15 lines that is no generic section label and no source site; else
\* the file name.
C23_NamePrecedence ==
    HasRecord => recipe[1]["name"].str = NamesByPrecedence[unified_dir[file_idx]].stated

\* C23 amended: the same order, where a marker counts only if at least one
\* character follows it on its line, and a heading only if its text is
\* longer than 3 characters.
C23_NamePrecedenceAmended ==
    HasRecord => recipe[1]["name"].str = NamesByPrecedence[unified_dir[file_idx]].amended

\* A marker won over a title heading that stands before it.
C23_Witness ==
    /\ HasRecord
    /\ ProcessedText = TextMarkerGroups
    /\ IsTitleHeading(Lines(ProcessedText)[1])
    /\ recipe[1]["name"].str = "Pot Pie"

-----------------------------------------------------------------------------
(* Claims about scripts/unify_recipes.py: extract_recipe_title and the      *)
(* bundles of analyze_files.                                                *)

\* C24: when the first 10 lines of the page just read hold both a
\* 'RECIPE FOR:' line and a '# ' heading line, the title is the text of the
\* marker, whichever of the two lines comes first.
C24_MarkerPreferred ==
    idx > 0 =>
        LET lines    == Take(Lines(ocr_dir[idx]), 10)
            markers  == { k \in 1..Len(lines) :
                            AfterMarker(lines[k]) # None /\ AfterMarker(lines[k]) # Some("") }
            headings == { k \in 1..Len(lines) : StartsWith(Strip(lines[k]), "# ") }
        IN  markers # {} /\ headings # {} =>
                title = Some(Strip(AfterMarker(lines[Least(markers)])[1]))

\* C25: a closed bundle is frozen. Every step leaves each bundle of the
\* output list as it is; the list grows by at most one bundle, which is the
\* bundle that was open, so no page reaches a closed bundle and no two closed
\* bundles become one.
C25_ClosedFrozen ==
    [][ /\ Len(recipes') \in { Len(recipes), Len(recipes) + 1 }
        /\ \A k \in 1..Len(recipes) : recipes'[k] = recipes[k]
        /\ Len(recipes') = Len(recipes) + 1 =>
              /\ current_recipe # None
              /\ recipes'[Len(recipes')] = current_recipe[1] ]_vars

\* a page was appended to the open bundle while the output list held a bundle
C25_Witness ==
    /\ pc = "loop"
    /\ Len(recipes) >= 1
    /\ current_recipe # None
    /\ Len(current_recipe[1].files) >= 2
    /\ recipes[1].files = <<FileName(1)>>

-----------------------------------------------------------------------------
(* Further claims about the extractors of structure_recipes.py.             *)

\* index of the first line from i on that is a notes heading, or 0
RECURSIVE NotesHeadingAt(_, _)
NotesHeadingAt(lines, i) ==
    IF i > Len(lines) THEN 0
    ELSE IF IsNotesHeading(Lower(Strip(lines[i]))) THEN i
    ELSE NotesHeadingAt(lines, i + 1)

\* the rows of a section: the lines from i on up to the next heading, blank
\* lines and images left out, each without its bullet or number
RECURSIVE SectionRows(_, _)
SectionRows(lines, i) ==
    IF i > Len(lines) \/ StartsWith(Strip(lines[i]), "#") THEN <<>>
    ELSE (IF Strip(lines[i]) = "" \/ StartsWith(Strip(lines[i]), "![") THEN <<>>
          ELSE <<StripNumber(StripBullet(Strip(lines[i])))>>) \o SectionRows(lines, i + 1)

\* the rows under the first instructions heading and under the first notes
\* heading of the texts of the model
RowsOfSections ==
    [ t \in UnifiedTexts |->
        LET lines == Lines(t)
            ins   == InstructionsHeadingAt(lines, 1)
            nts   == NotesHeadingAt(lines, 1)
        IN  [ instructions |-> IF ins = 0 THEN <<>> ELSE SectionRows(lines, ins + 1),
              notes        |-> IF nts = 0 THEN <<>> ELSE SectionRows(lines, nts + 1) ] ] @@ <<>>

\* C26: a row of the instructions section is returned by extract_instructions
\* if and only if it has at least 10 characters without its prefix, and a row
\* of the notes section is returned by extract_notes under the same
\* condition, so a row of exactly 10 characters is kept by both.
C26_SameMinimum ==
    HasRecord =>
        LET rows  == RowsOfSections[ProcessedText]
            rec   == recipe[1]
            notes == IF "notes" \in DOMAIN rec THEN rec["notes"].list ELSE <<>>
        IN  /\ \A row \in Range(rows.instructions) :
                  Len(row) >= 10 <=> row \in Range(rec["instructions"].list)
            /\ \A row \in Range(rows.notes) :
                  Len(row) >= 10 <=> row \in Range(notes)

\* the lines of the ingredients section: after the first ingredients heading,
\* up to the instructions heading that follows it
IngredientLines(text) ==
    LET lines == Lines(text)
        first == IngredientsHeadingAt(lines, 1)
        last  == InstructionsHeadingAt(lines, first + 1)
    IN  IF first = 0 THEN <<>>
        ELSE SubSeq(lines, first + 1, IF last = 0 THEN Len(lines) ELSE last - 1)

\* a line that opens a sub-group, and the label it opens
IsGroupLabel(line) ==
    \/ StartsWith(Strip(line), "###")
    \/ (EndsWith(Strip(line), ":") /\ Len(Strip(line)) < 50)

LabelOf(line) == Strip(RStripChar(LStripChar(Strip(line), "#"), ":"))

\* the rows among the lines from i on that stand under the label: 'open'
\* tells whether the most recent label line opened it
RECURSIVE RowsUnder(_, _, _, _)
RowsUnder(lines, i, label, open) ==
    IF i > Len(lines) THEN <<>>
    ELSE IF IsGroupLabel(lines[i])
         THEN RowsUnder(lines, i + 1, label, LabelOf(lines[i]) = label)
    ELSE IF open /\ IsIngredientRow(lines[i])
         THEN <<StripNumber(StripBullet(Strip(lines[i])))>> \o RowsUnder(lines, i + 1, label, open)
    ELSE RowsUnder(lines, i + 1, label, open)

\* the ingredient rows among the lines from i on, in order
RECURSIVE RowsOf(_, _)
RowsOf(lines, i) ==
    IF i > Len(lines) THEN <<>>
    ELSE (IF IsIngredientRow(lines[i]) THEN <<StripNumber(StripBullet(Strip(lines[i])))>>
          ELSE <<>>) \o RowsOf(lines, i + 1)

\* For each text of the model: the labels of its ingredients section, the
\* rows that stand before the first label, the rows under each label, all
\* its rows, and the state of extract_ingredients after the primary loop.
IngredientSections ==
    [ t \in UnifiedTexts |->
        LET lines  == IngredientLines(t)
            at     == { k \in 1..Len(lines) : IsGroupLabel(lines[k]) }
            labels == { LabelOf(lines[k]) : k \in at }
        IN  [ labels    |-> labels,
              unlabeled |-> RowsOf(SubSeq(lines, 1, IF at = {} THEN Len(lines) ELSE Least(at) - 1), 1),
              under     |-> [ label \in labels |-> RowsUnder(lines, 1, label, FALSE) ],
              rows      |-> RowsOf(lines, 1),
              primary   |-> PrimaryIngredients(Lines(t), 1,
                                [in_section |-> FALSE, current_group |-> None,
                                 ingredients |-> <<>>, ingredient_groups |-> <<>>]) ] ] @@ <<>>

\* C27: for a document whose ingredient rows all follow one of two or more
\* sub-group labels, the mapping has exactly one key per label, each key
\* holds exactly the rows under its label in order, and the flat list is
\* empty (rows go to the most recently opened sub-group, else to the list).
C27_RowsRouted ==
    HasRecord =>
        LET sec == IngredientSections[ProcessedText]
            rec == recipe[1]
        IN  Cardinality(sec.labels) >= 2 /\ sec.unlabeled = <<>> /\ sec.rows # <<>> =>
                /\ "ingredient_groups" \in DOMAIN rec
                /\ rec["ingredient_groups"].dict = sec.under
                /\ rec["ingredients"].list = <<>>

\* C28: when the primary strategy collected a row, into the flat list or into
\* a sub-group, the fallback adds nothing: the record holds what the primary
\* strategy alone gives.
C28_FallbackOnlyWhenNothing ==
    HasRecord =>
        LET primary == IngredientSections[ProcessedText].primary
            alone   == IngredientsResult(primary)
            rec     == recipe[1]
        IN  primary.ingredients # <<>> \/ Populated(primary.ingredient_groups) # {} =>
                /\ rec["ingredients"].list = alone.ingredients
                /\ IF alone.ingredient_groups = None
                   THEN "ingredient_groups" \notin DOMAIN rec
                   ELSE /\ "ingredient_groups" \in DOMAIN rec
                        /\ rec["ingredient_groups"].dict = alone.ingredient_groups[1]

\* how often a row occurs in a list
CountIn(list, row) == Cardinality({ k \in 1..Len(list) : list[k] = row })

\* how often a row occurs in the groups of the labels handed in
RECURSIVE CountInGroups(_, _, _)
CountInGroups(groups, labels, row) ==
    IF labels = {} THEN 0
    ELSE LET label == CHOOSE g \in labels : TRUE
         IN  CountIn(groups[label], row) + CountInGroups(groups, labels \ {label}, row)

\* how often a row occurs in the result: in the flat list and in the groups
CountInRecord(rec, row) ==
    CountIn(rec["ingredients"].list, row)
      + (IF "ingredient_groups" \in DOMAIN rec
         THEN CountInGroups(rec["ingredient_groups"].dict,
                            DOMAIN rec["ingredient_groups"].dict, row)
         ELSE 0)

\* C29: every ingredient row of the ingredients section occurs in the result
\* as often as in the section: once per accepted row, in the flat list or in
\* one group, also when a label is repeated or a single group is flattened.
C29_RowsConserved ==
    HasRecord =>
        LET rows == IngredientSections[ProcessedText].rows
        IN  \A row \in Range(rows) : CountInRecord(recipe[1], row) = CountIn(rows, row)

-----------------------------------------------------------------------------
(* ocr_batch.py: process_single_image run by the workers of the executor,   *)
(* and the loop of main that counts their outcomes.                         *)

\* Largest number of images in image_dir.
MaxImages == 3

\* Largest number of worker threads the executor is given.
MaxWorkers == 2

\* The image files of the model, in the order of find_images (line 73).
ImageFiles == << [stem |-> "a", suffix |-> ".heic"], [stem |-> "a", suffix |-> ".jpg"],
                 [stem |-> "b", suffix |-> ".png"], [stem |-> "c", suffix |-> ".JPG"],
                 [stem |-> "d", suffix |-> ".heif"] >>

\* the sorted listings of the image directories of 1 to n images
RECURSIVE Listing(_, _)
Listing(chosen, k) ==
    IF k > Len(ImageFiles) THEN <<>>
    ELSE (IF k \in chosen THEN <<ImageFiles[k]>> ELSE <<>>) \o Listing(chosen, k + 1)

ImageDirectories(n) ==
    { Listing(chosen, 1) : chosen \in { c \in SUBSET (1..Len(ImageFiles)) :
                                           c # {} /\ Cardinality(c) <= n } }

\* the tasks that a worker thread is running
Running == { i \in DOMAIN futures : futures[i].pc \in {"convert", "ocr", "write"} }

\* the tuple a finished task returns: (image_path.name, status, error_msg)
Returned(image, status, error_msg) ==
    [ pc |-> "done", filename |-> image.stem \o image.suffix, status |-> status,
      error_msg |-> error_msg ]

\* lines 193-201 without the else branch
Tally_without_else(status, counts) ==
    IF status = "skipped" THEN [counts EXCEPT !.skip_count = @ + 1]
    ELSE IF status = "success" THEN [counts EXCEPT !.success_count = @ + 1]
    ELSE counts

\* lines 193-201: the counter the status of a result adds to
Tally(status, counts) ==
    IF status = "skipped" THEN [counts EXCEPT !.skip_count = @ + 1]
    ELSE IF status = "success" THEN [counts EXCEPT !.success_count = @ + 1]
    ELSE [counts EXCEPT !.error_count = @ + 1]

\* A free worker thread takes the oldest queued task and runs
\* process_single_image up to the try statement (lines 83-91).
StartTask(i) ==
    /\ pc = "batch"
    /\ futures[i].pc = "queued"
    /\ \A j \in 1..(i - 1) : futures[j].pc # "queued"
    /\ Cardinality(Running) < max_workers
    /\ futures' = [futures EXCEPT ![i] =
          IF skip_existing /\ images[i].stem \in ocr_results
          THEN Returned(images[i], "skipped", None)
          ELSE [@ EXCEPT !.pc = IF Lower(images[i].suffix) \in {".heic", ".heif"}
                                THEN "convert" ELSE "ocr"]]
    /\ UNCHANGED <<pc, images, skip_existing, max_workers, ocr_results, collected,
                   completed, success_count, skip_count, error_count>>
    /\ UNCHANGED <<aggregator_vars, structure_vars, combine_vars, workers>>

\* line 92: convert_heic_to_jpg returns the temporary file
ConvertHeic(i) ==
    /\ pc = "batch"
    /\ futures[i].pc = "convert"
    /\ futures' = [futures EXCEPT ![i].pc = "ocr"]
    /\ UNCHANGED <<pc, images, skip_existing, max_workers, ocr_results, collected,
                   completed, success_count, skip_count, error_count>>
    /\ UNCHANGED <<aggregator_vars, structure_vars, combine_vars, workers>>

\* lines 94-98: ocr_image returns the text
OcrImage(i) ==
    /\ pc = "batch"
    /\ futures[i].pc = "ocr"
    /\ futures' = [futures EXCEPT ![i].pc = "write"]
    /\ UNCHANGED <<pc, images, skip_existing, max_workers, ocr_results, collected,
                   completed, success_count, skip_count, error_count>>
    /\ UNCHANGED <<aggregator_vars, structure_vars, combine_vars, workers>>

\* lines 101-102: the text is written and the task returns 'success'
SaveResult(i) ==
    /\ pc = "batch"
    /\ futures[i].pc = "write"
    /\ ocr_results' = ocr_results \cup {images[i].stem}
    /\ futures' = [futures EXCEPT ![i] = Returned(images[i], "success", None)]
    /\ UNCHANGED <<pc, images, skip_existing, max_workers, collected,
                   completed, success_count, skip_count, error_count>>
    /\ UNCHANGED <<aggregator_vars, structure_vars, combine_vars, workers>>

\* lines 104-105: the conversion, the OCR request or the write raises an
\* Exception inside the try statement, and the task returns 'error'
RaisesException(i) ==
    /\ pc = "batch"
    /\ futures[i].pc \in {"convert", "ocr", "write"}
    /\ futures' = [futures EXCEPT ![i] =
                      Returned(images[i], "error", Some("raised at " \o futures[i].pc))]
    /\ UNCHANGED <<pc, images, skip_existing, max_workers, ocr_results, collected,
                   completed, success_count, skip_count, error_count>>
    /\ UNCHANGED <<aggregator_vars, structure_vars, combine_vars, workers>>

\* lines 188-201: as_completed yields a finished future and main counts it
CollectResult(i) ==
    /\ pc = "batch"
    /\ futures[i].pc = "done"
    /\ i \notin collected
    /\ collected' = collected \cup {i}
    /\ completed' = completed + 1
    /\ LET counts == Tally(futures[i].status,
                           [ success_count |-> success_count, skip_count |-> skip_count,
                             error_count |-> error_count ])
       IN  /\ success_count' = counts.success_count
           /\ skip_count' = counts.skip_count
           /\ error_count' = counts.error_count
    /\ UNCHANGED <<pc, images, skip_existing, max_workers, ocr_results, futures>>
    /\ UNCHANGED <<aggregator_vars, structure_vars, combine_vars, workers>>

\* lines 203-211: as_completed is exhausted and the executor is shut down
FinishBatch ==
    /\ pc = "batch"
    /\ collected = DOMAIN futures
    /\ pc' = "batch done"
    /\ UNCHANGED batch_vars
    /\ UNCHANGED <<aggregator_vars, structure_vars, combine_vars, workers>>

\* main at line 178: at least one image was found (line 159), at most
\* MaxImages; every task is submitted (lines 180-185) and none has started.
InitBatch ==
    /\ images \in ImageDirectories(MaxImages)
    /\ skip_existing \in BOOLEAN
    /\ max_workers \in 1..MaxWorkers
    /\ ocr_results \in { {}, {"a"} }
    /\ futures = [ i \in 1..Len(images) |->
                     [ pc |-> "queued", filename |-> "", status |-> "", error_msg |-> None ] ]
    /\ collected = {}
    /\ completed = 0
    /\ success_count = 0
    /\ skip_count = 0
    /\ error_count = 0
    /\ pc = "batch"
    /\ ocr_dir = <<>>
    /\ idx = 0
    /\ recipes = <<>>
    /\ current_recipe = None
    /\ title = None
    /\ is_continuation = FALSE
    /\ has_ending = FALSE
    /\ unified_dir = <<>>
    /\ file_idx = 0
    /\ recipe = None
    /\ output_dir = <<>>
    /\ combine_idx = 0
    /\ unified_out = <<>>
    /\ workers = <<>>

NextBatch ==
    \/ \E i \in DOMAIN futures :
          \/ StartTask(i) \/ ConvertHeic(i) \/ OcrImage(i) \/ SaveResult(i)
          \/ RaisesException(i) \/ CollectResult(i)
    \/ FinishBatch

SpecBatch == InitBatch /\ [][NextBatch]_vars

\* the images whose task returned the status
WithStatus(status) == { i \in DOMAIN futures : futures[i].pc = "done" /\ futures[i].status = status }

=============================================================================
